---- MODULE Spec2Model ----
(***************************************************************************)
(* Contract intelligence system: the text chunker, the risk score, the     *)
(* extraction and audit services with their LLM fallback, the request      *)
(* handlers over the relational store, and the retrieval pipeline over the *)
(* vector store.                                                           *)
(***************************************************************************)
EXTENDS Integers, Sequences, FiniteSets, TLC

(* ------------------------------ bounds -------------------------------- *)

\* Longest text handed to chunk_text.
MaxTextLen == 5
\* Largest chunk_size handed to chunk_text.
MaxChunkSize == 4
\* Longest finding list handed to calculate_risk_score.
MaxFindings == 3
\* Number of index_document and query calls started in a run.
MaxOps == 3
\* Number of HTTP and websocket requests started in a run.
MaxRequests == 3
MaxChunks == 8
MaxFiles == 4
MaxHookOps == 4

(* ------------------------- program constants -------------------------- *)

\* n_results of VectorStore.query and RAGService.answer_question
N_RESULTS == 5

(* ----------------------------- variables ------------------------------ *)

VARIABLES
    \* PDFProcessor.chunk_text: its arguments, its locals, its position
    text, chunk_size, overlap, start, chunks, cpc,
    \* AuditService.calculate_risk_score: its argument, its result, its position
    findings, risk_score, rpc,
    \* ExtractionService.extract / AuditService.audit: the operation called,
    \* its arguments, the service's configuration, the LLM's answer, the result
    s_op, s_text, s_use_llm, s_self_use_llm, s_response, s_result, s_pc,
    \* the retrieval pipeline: the settings, the vector store's collection,
    \* and per worker its position, the call it serves, the ids
    \* delete_document found and the result of its query
    settings, collection, pc, job, found, obs,
    \* history: the documents whose chunks a worker's index_document changed,
    \* whether another index_document of the same document ran alongside,
    \* the documents whose chunks are deleted with the add still to come,
    \* and the number of calls started
    touched, overlapped, gap, nops,
    \* the database tables and the metrics counters
    documents, extracted_data, audit_findings, metrics,
    \* per worker: the position in the handler it runs, the request, what the
    \* handler holds between its awaits, the HTTP response, the websocket
    request_pc, request, session, response, ws,
    \* history: what a request has called so far, the record written by the
    \* last committed extraction and the findings of the last committed
    \* audit of each document, and the number of requests started
    trace, last_extraction, last_audit, nreq,
    \* POST /ingest: the documents table as ingest writes it, and per worker
    \* the position in the handler, len(files), the index of the file the
    \* loop is at, the documents added to the session, the number of the
    \* request; history: the status each request was answered with and
    \* whether a rejection dropped documents, the files uploaded so far
    document_table, ingest_pc, files, file_index, db_session, ingest_request,
    ingest_outcome, ningest,
    \* the webhooks: webhook_registry, and per task that calls
    \* send_webhook_event its position, the event type, matching_webhooks and
    \* the index of the webhook the loop is at, whether the call raised;
    \* history: the posts of the call, the webhooks registered with the event
    \* type when it was called, and the number of operations started
    webhook_registry, hook_pc, event_type, matching_webhooks, hook_index,
    posted, subscribed, nhook

chunkVars == <<text, chunk_size, overlap, start, chunks, cpc>>
riskVars == <<findings, risk_score, rpc>>
svcVars == <<s_op, s_text, s_use_llm, s_self_use_llm, s_response, s_result, s_pc>>
storeVars == <<settings, collection, pc, job, found, obs, touched, overlapped, gap, nops>>
apiVars == <<documents, extracted_data, audit_findings, metrics, request_pc, request,
             session, response, ws, trace, last_extraction, last_audit, nreq>>
ingestVars == <<document_table, ingest_pc, files, file_index, db_session, ingest_request,
                ingest_outcome, ningest>>
hookVars == <<webhook_registry, hook_pc, event_type, matching_webhooks, hook_index,
              posted, subscribed, nhook>>
vars == <<chunkVars, riskVars, svcVars, storeVars, apiVars, ingestVars, hookVars>>

(* ------------------------------ helpers ------------------------------- *)

Min(a, b) == IF a <= b THEN a ELSE b

\* Python's s[lo:hi]: a negative index counts from the end, and both are
\* clipped to the sequence.
Slice(s, lo, hi) ==
    LET clip(i) == IF i < 0 THEN (IF Len(s) + i < 0 THEN 0 ELSE Len(s) + i)
                   ELSE Min(i, Len(s))
    IN  SubSeq(s, clip(lo) + 1, clip(hi))

\* All sequences over S of length at most n.
SeqsUpTo(S, n) == UNION {[1..k -> S] : k \in 0..n}

(* ======================== PDFProcessor.chunk_text ===================== *)

Chars == {"a", "b"}

ChunkDictUnclipped(t, st, size, n) ==
    [text |-> Slice(t, st, st + size),
     start_char |-> st,
     end_char |-> st + size,
     chunk_index |-> n]

\* The dict appended by one iteration of the loop.
ChunkDict(t, st, size, n) ==
    [text |-> Slice(t, st, st + size),
     start_char |-> st,
     end_char |-> Min(st + size, Len(t)),
     chunk_index |-> n]

NextStartMinStep(st, size, ov) == st + (IF size - ov > 1 THEN size - ov ELSE size)

NextStartNoOverlap(st, size, ov) == st + size

\* start += (chunk_size - overlap)
NextStart(st, size, ov) == st + (size - ov)

ChunkIdle ==
    /\ text = <<>>
    /\ chunk_size = 1
    /\ overlap = 0
    /\ start = 0
    /\ chunks = <<>>
    /\ cpc = "idle"

\* chunk_text(text, chunk_size, overlap) entered with valid parameters.
ChunkInit ==
    /\ text \in SeqsUpTo(Chars, MaxTextLen)
    /\ chunk_size \in 1..MaxChunkSize
    /\ overlap \in 0..(chunk_size - 1)
    /\ start = 0
    /\ chunks = <<>>
    /\ cpc = "loop"

\* One iteration of `while start < len(text)`.
ChunkLoop ==
    /\ cpc = "loop"
    /\ start < Len(text)
    /\ chunks' = Append(chunks, ChunkDict(text, start, chunk_size, Len(chunks)))
    /\ start' = NextStart(start, chunk_size, overlap)
    /\ UNCHANGED <<text, chunk_size, overlap, cpc>>
    /\ UNCHANGED <<riskVars, svcVars, storeVars, apiVars, ingestVars, hookVars>>

\* The loop condition fails: return chunks.
ChunkReturn ==
    /\ cpc = "loop"
    /\ ~(start < Len(text))
    /\ cpc' = "done"
    /\ UNCHANGED <<text, chunk_size, overlap, start, chunks>>
    /\ UNCHANGED <<riskVars, svcVars, storeVars, apiVars, ingestVars, hookVars>>

\* chunk_text entered with any parameters: nothing validates them.
ChunkAnyInit ==
    /\ text \in SeqsUpTo(Chars, MaxTextLen)
    /\ chunk_size \in 1..MaxChunkSize
    /\ overlap \in 0..(MaxChunkSize + 1)
    /\ start = 0
    /\ chunks = <<>>
    /\ cpc = "loop"

\* An iteration of the loop, followed for the first MaxChunks chunks.
ChunkLoopCapped ==
    /\ Len(chunks) < MaxChunks
    /\ ChunkLoop

(* ================== AuditService.calculate_risk_score ================= *)

Severities == {"low", "medium", "high", "critical"}

\* A finding as calculate_risk_score reads it: f.get("severity", "low").
\* "other" stands for a severity string outside the table.
RiskFindings == [severity : Severities \cup {"other"}]

\* severity_weights.get(sev, 10)
severity_weights(sev) ==
    CASE sev = "low" -> 10
      [] sev = "medium" -> 25
      [] sev = "high" -> 50
      [] sev = "critical" -> 100
      [] OTHER -> 10

RECURSIVE total_score(_)
total_score(fs) ==
    IF fs = <<>> THEN 0
    ELSE severity_weights(Head(fs).severity) + total_score(Tail(fs))

calculate_risk_score_uncapped(fs) == total_score(fs)

calculate_risk_score(fs) ==
    IF fs = <<>> THEN 0 ELSE Min(total_score(fs), 100)

RiskIdle ==
    /\ findings = <<>>
    /\ risk_score = 0
    /\ rpc = "idle"

RiskInit ==
    /\ findings \in SeqsUpTo(RiskFindings, MaxFindings)
    /\ risk_score = 0
    /\ rpc = "call"

CalculateRiskScore ==
    /\ rpc = "call"
    /\ risk_score' = calculate_risk_score(findings)
    /\ rpc' = "done"
    /\ UNCHANGED findings
    /\ UNCHANGED <<chunkVars, svcVars, storeVars, apiVars, ingestVars, hookVars>>

(* ============================ JSON values ============================= *)

\* A Python / JSON value as the services handle it.  A str carries its
\* characters in `items`, a list its elements (one-character strings, or dicts
\* named by their "name"), a dict its keys, a number its value in `num`.
JVal(type, elem, items, num) ==
    [type |-> type, elem |-> elem, items |-> items, num |-> num]
None == JVal("null", "none", <<>>, 0)
Str(cs) == JVal("str", "none", cs, 0)
List(xs, elem) == JVal("list", elem, xs, 0)
Dict(keys) == JVal("dict", "none", keys, 0)
Num(n) == JVal("num", "none", <<>>, n)

\* Python truthiness: None, "", [], {} and 0 are false.
Truthy(v) ==
    CASE v.type = "null" -> FALSE
      [] v.type = "num" -> v.num # 0
      [] OTHER -> v.items # <<>>

\* `x or []`
OrEmptyList(v) == IF Truthy(v) THEN v ELSE List(<<>>, "none")

\* The elements of a sequence, and a set listed in a fixed order
\* (list(set(...)): the order is the interpreter's, fixed for a given set).
ToSet(xs) == {xs[i] : i \in 1..Len(xs)}
RECURSIVE SetToSeq(_)
SetToSeq(S) ==
    IF S = {} THEN <<>>
    ELSE LET x == CHOOSE y \in S : TRUE IN <<x>> \o SetToSeq(S \ {x})

RECURSIVE Flatten(_)
Flatten(xss) == IF xss = <<>> THEN <<>> ELSE Head(xss) \o Flatten(Tail(xss))

(* ================= ExtractionService: the rule engine ================= *)

\* A contract text as the rule extractor sees it: what each of its regular
\* expressions matches.  An optional match is <<>> (no match) or <<m>>.
\*   between     re.findall(between_pattern): the (X, Y) pairs
\*   party_lists re.findall(party_pattern): each match split on ','
\*   date, term  per candidate pattern, in priority order, its first match
\*   liability   the groups (currency, amount) of the liability pattern
ExtractText(between, party_lists, date, term, law, pay, liability) ==
    [between |-> between, party_lists |-> party_lists, date |-> date,
     term |-> term, governing_law |-> law, payment_terms |-> pay,
     termination |-> <<>>, auto_renewal |-> <<>>, confidentiality |-> <<>>,
     indemnity |-> <<>>, liability |-> liability]

EmptyExtractText == ExtractText(<<>>, <<>>, <<<<>>, <<>>, <<>>>>, <<<<>>, <<>>, <<>>>>,
                                <<>>, <<>>, <<>>)

\* `return match.group(1).strip()` or `return None`
MatchOrNone(m) == IF m = <<>> THEN None ELSE Str(m[1])

RECURSIVE LastMatch(_)
LastMatch(ms) ==
    IF ms = <<>> THEN None
    ELSE IF LastMatch(Tail(ms)) # None THEN LastMatch(Tail(ms))
    ELSE IF Head(ms) # <<>> THEN Str(Head(ms)[1])
    ELSE None

\* `for pattern in patterns: match = re.search(...); if match: return ...`
RECURSIVE FirstMatch(_)
FirstMatch(ms) ==
    IF ms = <<>> THEN None
    ELSE IF Head(ms) # <<>> THEN Str(Head(ms)[1])
    ELSE FirstMatch(Tail(ms))

_extract_parties_rule(t) ==
    LET parties == Flatten(t.between) \o Flatten(t.party_lists)
    IN  List(SetToSeq(ToSet(Slice(parties, 0, 10))), "str")

_extract_date_rule(t) == FirstMatch(t.date)
_extract_term_rule(t) == FirstMatch(t.term)

Digits == <<"0", "1", "2", "3", "4", "5", "6", "7", "8", "9">>
DigitValue(c) == (CHOOSE i \in 1..10 : Digits[i] = c) - 1

\* amount_str.replace(',', '')
RECURSIVE StripCommas(_)
StripCommas(cs) ==
    IF cs = <<>> THEN <<>>
    ELSE IF Head(cs) = "," THEN StripCommas(Tail(cs))
    ELSE <<Head(cs)>> \o StripCommas(Tail(cs))

\* float() of a string of digits; it raises ValueError on the empty string.
RECURSIVE DecimalValue(_)
DecimalValue(cs) ==
    IF cs = <<>> THEN 0
    ELSE 10 * DecimalValue(SubSeq(cs, 1, Len(cs) - 1)) + DigitValue(cs[Len(cs)])

_extract_liability_cap_rule_zero(t) ==
    IF t.liability = <<>> THEN <<>>
    ELSE LET m == t.liability[1]
             currency == IF m.currency = <<>> THEN <<"U", "S", "D">> ELSE m.currency[1]
             amount_str == StripCommas(m.amount)
         IN  <<[amount |-> DecimalValue(amount_str), currency |-> currency]>>

\* <<>> when nothing is returned, else <<[amount, currency]>>.
_extract_liability_cap_rule(t) ==
    IF t.liability = <<>> THEN <<>>
    ELSE LET m == t.liability[1]
             currency == IF m.currency = <<>> THEN <<"U", "S", "D">> ELSE m.currency[1]
             amount_str == StripCommas(m.amount)
         IN  IF amount_str = <<>> THEN <<>>
             ELSE <<[amount |-> DecimalValue(amount_str), currency |-> currency]>>

extract_with_rules(t) ==
    LET liability == _extract_liability_cap_rule(t)
    IN  [parties |-> _extract_parties_rule(t),
         effective_date |-> _extract_date_rule(t),
         term |-> _extract_term_rule(t),
         governing_law |-> MatchOrNone(t.governing_law),
         payment_terms |-> MatchOrNone(t.payment_terms),
         termination |-> MatchOrNone(t.termination),
         auto_renewal |-> MatchOrNone(t.auto_renewal),
         confidentiality |-> MatchOrNone(t.confidentiality),
         indemnity |-> MatchOrNone(t.indemnity),
         liability_cap_amount |->
             IF liability = <<>> THEN None ELSE Num(liability[1].amount),
         liability_cap_currency |->
             IF liability = <<>> THEN None ELSE Str(liability[1].currency),
         signatories |-> List(<<>>, "none")]

(* ================= ExtractionService: the LLM path =================== *)

ExtractKeys == {"parties", "effective_date", "term", "governing_law",
                "payment_terms", "termination", "auto_renewal", "confidentiality",
                "indemnity", "liability_cap_amount", "liability_cap_currency",
                "signatories"}

\* What the chat-completion call of extract_with_llm can come back with: the
\* call raises, the content is not JSON, the JSON is not an object, or it is
\* an object (a missing key reads as None through data.get).
LLMExtractData(parties, signatories, effective_date) ==
    [k \in ExtractKeys |->
        CASE k = "parties" -> parties
          [] k = "signatories" -> signatories
          [] k = "effective_date" -> effective_date
          [] OTHER -> None]

\* `normalized["signatories"][0]` raises on a dict (KeyError) and on a number
\* (TypeError); isinstance(..., str) holds for a str and for a list of str.
SignatoriesRaise(sig) == Truthy(sig) /\ sig.type \in {"dict", "num"}
SignatoriesFromStr(sig) ==
    /\ Truthy(sig)
    /\ \/ sig.type = "str"
       \/ sig.type = "list" /\ sig.elem = "str"

\* _normalize_extraction(data): <<>> when it raises, else <<normalized>>.
_normalize_extraction(data) ==
    LET parties0 == OrEmptyList(data["parties"])
        \* [normalized["parties"]]: list elements are one-character strings
        parties == IF parties0.type = "str"
                   THEN List(parties0.items, "str") ELSE parties0
        sig0 == OrEmptyList(data["signatories"])
        sig == IF SignatoriesFromStr(sig0) THEN List(sig0.items, "dict") ELSE sig0
    IN  IF SignatoriesRaise(sig0) THEN <<>>
        ELSE <<[data EXCEPT !["parties"] = parties, !["signatories"] = sig]>>

\* extract_with_llm(text) on the response r: <<>> when it raises ValueError.
extract_with_llm(r) ==
    IF r.kind # "json_object" THEN <<>> ELSE _normalize_extraction(r.data)

(* ==================== AuditService: the rule engine =================== *)

\* A contract text as the rule auditor sees it: what each of its regular
\* expressions matches.
\*   renew1, renew2  the day counts (group 2) of the matches of the two
\*                   auto-renewal patterns, in re.finditer order
\*   unlimited, broad, unilateral, price
\*                   the indices of the patterns of each detector that match
\*   has_cap, liability_word, pct_cap   re.search of the single patterns
AuditText(r1, r2, unl, cap, word, broad, unilateral, price, pct) ==
    [renew1 |-> r1, renew2 |-> r2, unlimited |-> unl,
     has_cap |-> cap, liability_word |-> word, broad |-> broad,
     unilateral |-> unilateral, price |-> price, pct_cap |-> pct]

EmptyAuditText == AuditText(<<>>, <<>>, {}, FALSE, FALSE, {}, {}, {}, FALSE)

\* Every pattern that contains the word "liability" matches only where the
\* word itself matches.
ValidAuditText(t) ==
    (t.unlimited # {} \/ t.has_cap) => t.liability_word

\* description carries the day count of an auto-renewal finding (0 otherwise),
\* evidence_text the index of the pattern whose match is quoted (0 for a fixed
\* string).
Finding(type, severity, description, evidence) ==
    [finding_type |-> type, severity |-> severity, description |-> description,
     evidence_text |-> evidence]

\* The first pattern of the list that matches (`for pattern ...: if match: break`).
FirstPattern(S) == CHOOSE i \in S : \A j \in S : i <= j

RECURSIVE RenewalFindingsInclusive(_, _)
RenewalFindingsInclusive(days, pattern) ==
    IF days = <<>> THEN <<>>
    ELSE (IF Head(days) <= 30
          THEN <<Finding("auto_renewal_short_notice",
                         IF Head(days) <= 15 THEN "high" ELSE "medium",
                         Head(days), pattern)>>
          ELSE <<>>) \o RenewalFindingsInclusive(Tail(days), pattern)

RECURSIVE RenewalFindings(_, _)
RenewalFindings(days, pattern) ==
    IF days = <<>> THEN <<>>
    ELSE (IF Head(days) < 30
          THEN <<Finding("auto_renewal_short_notice",
                         IF Head(days) < 15 THEN "high" ELSE "medium",
                         Head(days), pattern)>>
          ELSE <<>>) \o RenewalFindings(Tail(days), pattern)

_check_auto_renewal(t) ==
    RenewalFindings(t.renew1, 1) \o RenewalFindings(t.renew2, 2)

_check_unlimited_liability_both(t) ==
    (IF t.unlimited # {}
     THEN <<Finding("unlimited_liability", "critical", 0, FirstPattern(t.unlimited))>>
     ELSE <<>>)
    \o (IF ~t.has_cap /\ t.liability_word
        THEN <<Finding("unlimited_liability", "high", 0, 0)>>
        ELSE <<>>)

_check_unlimited_liability_no_word(t) ==
    IF t.unlimited # {}
    THEN <<Finding("unlimited_liability", "critical", 0, FirstPattern(t.unlimited))>>
    ELSE IF ~t.has_cap THEN <<Finding("unlimited_liability", "high", 0, 0)>>
    ELSE <<>>

_check_unlimited_liability(t) ==
    LET explicit == IF t.unlimited # {}
                    THEN <<Finding("unlimited_liability", "critical", 0,
                                   FirstPattern(t.unlimited))>>
                    ELSE <<>>
    IN  IF ~t.has_cap /\ explicit = <<>> /\ t.liability_word
        THEN <<Finding("unlimited_liability", "high", 0, 0)>>
        ELSE explicit

_check_broad_indemnity(t) ==
    IF t.broad # {}
    THEN <<Finding("broad_indemnity", "medium", 0, FirstPattern(t.broad))>>
    ELSE <<>>

_check_unilateral_termination(t) ==
    IF t.unilateral # {}
    THEN <<Finding("unilateral_termination", "medium", 0, FirstPattern(t.unilateral))>>
    ELSE <<>>

_check_price_increases(t) ==
    IF t.price # {}
    THEN <<Finding("automatic_price_increase",
                   IF t.pct_cap THEN "low" ELSE "medium", 0, FirstPattern(t.price))>>
    ELSE <<>>

audit_with_rules_liability_first(t) ==
    _check_unlimited_liability(t) \o _check_auto_renewal(t)
        \o _check_broad_indemnity(t) \o _check_unilateral_termination(t)
        \o _check_price_increases(t)

audit_with_rules(t) ==
    _check_auto_renewal(t) \o _check_unlimited_liability(t)
        \o _check_broad_indemnity(t) \o _check_unilateral_termination(t)
        \o _check_price_increases(t)

(* ====================== AuditService: the LLM path ==================== *)

\* An element of the "findings" array of the LLM's answer: a JSON object with
\* the keys it chose to give ("" for a missing key), or something that is not
\* an object; evidence_text may also be null, which finding.get(...)[:500]
\* cannot slice.
LLMFinding(is_dict, type, severity, evidence_null) ==
    [is_dict |-> is_dict, finding_type |-> type, severity |-> severity,
     evidence_null |-> evidence_null]

FindingRaises(f) == ~f.is_dict \/ f.evidence_null

_normalize_finding(f) ==
    Finding(IF f.finding_type = "" THEN "unknown" ELSE f.finding_type,
            IF f.severity = "" THEN "medium" ELSE f.severity, 0, 0)

\* audit_with_llm(text) on the response r: <<>> when it raises ValueError,
\* else <<the normalized findings>>.
audit_with_llm(r) ==
    IF r.kind # "json_object" \/ r.findings_null THEN <<>>
    ELSE IF \E i \in 1..Len(r.findings) : FindingRaises(r.findings[i]) THEN <<>>
    ELSE <<[i \in 1..Len(r.findings) |-> _normalize_finding(r.findings[i])]>>

(* ============== the service entry points extract and audit ============ *)

EmptyFields == [k \in ExtractKeys |-> None]

extract_except_reraise(t) ==
    [raised |-> TRUE, path |-> "none", fields |-> EmptyFields]

\* `except Exception as e: ... return self.extract_with_rules(text)`
extract_except(t) ==
    [raised |-> FALSE, path |-> "rule-based", fields |-> extract_with_rules(t)]

\* ExtractionService.extract(text, use_llm) with self.use_llm as configured
\* and r the response the LLM gives if it is called.
extract(t, use_llm, self_use_llm, r) ==
    IF use_llm /\ self_use_llm
    THEN LET out == extract_with_llm(r)
         IN  IF out # <<>>
             THEN [raised |-> FALSE, path |-> "llm", fields |-> out[1]]
             ELSE extract_except(t)
    ELSE [raised |-> FALSE, path |-> "rule-based", fields |-> extract_with_rules(t)]

\* `except Exception as e: ... return self.audit_with_rules(text)`
audit_except(t) ==
    [raised |-> FALSE, path |-> "rule-based", findings |-> audit_with_rules(t)]

\* AuditService.audit(text, use_llm)
audit(t, use_llm, self_use_llm, r) ==
    IF use_llm /\ self_use_llm
    THEN LET out == audit_with_llm(r)
         IN  IF out # <<>>
             THEN [raised |-> FALSE, path |-> "llm", findings |-> out[1]]
             ELSE audit_except(t)
    ELSE [raised |-> FALSE, path |-> "rule-based", findings |-> audit_with_rules(t)]

\* A match whose text is the one-character string c.
M(c) == << <<c>> >>

\* The texts the services are run on.
SvcExtractTexts ==
    {ExtractText(b, pl, d, <<<<>>, <<>>, <<>>>>, law, pay, li) :
        b \in {<<>>, << <<"A", "B">> >>},
        pl \in {<<>>, << <<"A", "C">> >>},
        d \in {<<<<>>, <<>>, <<>>>>, <<M("d"), <<>>, M("e")>>, <<<<>>, M("n"), M("e")>>},
        law \in {<<>>, M("g")},
        pay \in {<<>>, M("p")},
        li \in {<<>>,
                <<[currency |-> <<>>, amount |-> <<"5", "0">>]>>,
                <<[currency |-> M("$"), amount |-> <<"5", ",", "0">>]>>,
                <<[currency |-> <<>>, amount |-> <<",">>]>>}}

SvcAuditTexts ==
    {t \in {AuditText(r1, r2, u, c, w, b, ut, pr, pct) :
                r1 \in {<<>>, <<14>>, <<29>>, <<30>>}, r2 \in {<<>>, <<10>>},
                u \in {{}, {1}, {2, 3}}, c \in BOOLEAN, w \in BOOLEAN,
                b \in {{}, {2}}, ut \in {{}, {1}}, pr \in {{}, {1, 2}},
                pct \in BOOLEAN} : ValidAuditText(t)}

\* The answers of the LLM the services are run against.
LLMResponse(kind, data, findings_null, fs) ==
    [kind |-> kind, data |-> data, findings_null |-> findings_null, findings |-> fs]

LLMFailures ==
    {LLMResponse(k, EmptyFields, FALSE, <<>>) :
        k \in {"provider_error", "malformed_json", "not_object"}}

LLMExtractResponses ==
    LLMFailures \cup
    {LLMResponse("json_object", LLMExtractData(p, sg, d), FALSE, <<>>) :
        p \in {None, Str(<<"A">>), List(<<"A", "B">>, "str"), Dict(<<"k">>)},
        sg \in {None, List(<<"S", "T">>, "str"), List(<<"S">>, "dict"),
                Dict(<<"name">>), Str(<<"S", "T">>), Num(5)},
        d \in {None, Str(<<"d">>)}}

LLMAuditResponses ==
    LLMFailures \cup
    {LLMResponse("json_object", EmptyFields, TRUE, <<>>)} \cup
    {LLMResponse("json_object", EmptyFields, FALSE, fs) :
        fs \in SeqsUpTo({LLMFinding(TRUE, "ip_transfer", "high", FALSE),
                         LLMFinding(TRUE, "", "", FALSE),
                         LLMFinding(TRUE, "ip_transfer", "low", TRUE),
                         LLMFinding(FALSE, "", "", FALSE)}, 2)}

SvcIdle ==
    /\ s_op = "none"
    /\ s_text = [ex |-> EmptyExtractText, au |-> EmptyAuditText]
    /\ s_use_llm = FALSE
    /\ s_self_use_llm = FALSE
    /\ s_response = LLMResponse("provider_error", EmptyFields, FALSE, <<>>)
    /\ s_result = [raised |-> FALSE, path |-> "none", fields |-> EmptyFields,
                   findings |-> <<>>]
    /\ s_pc = "idle"

\* A call of extract or audit: the text, the use_llm argument, whether the
\* service has an LLM client configured, and what the LLM would answer.
SvcInit ==
    /\ s_op \in {"extract", "audit"}
    /\ s_text \in
         IF s_op = "extract"
         THEN {[ex |-> e, au |-> EmptyAuditText] : e \in SvcExtractTexts}
         ELSE {[ex |-> EmptyExtractText, au |-> a] : a \in SvcAuditTexts}
    /\ s_use_llm \in BOOLEAN
    /\ s_self_use_llm \in BOOLEAN
    /\ s_response \in
         IF s_op = "extract" THEN LLMExtractResponses ELSE LLMAuditResponses
    /\ s_result = [raised |-> FALSE, path |-> "none", fields |-> EmptyFields,
                   findings |-> <<>>]
    /\ s_pc = "call"

ExtractCall ==
    /\ s_pc = "call"
    /\ s_op = "extract"
    /\ LET out == extract(s_text.ex, s_use_llm, s_self_use_llm, s_response)
       IN  s_result' = [raised |-> out.raised, path |-> out.path,
                        fields |-> out.fields, findings |-> <<>>]
    /\ s_pc' = "returned"
    /\ UNCHANGED <<s_op, s_text, s_use_llm, s_self_use_llm, s_response>>
    /\ UNCHANGED <<chunkVars, riskVars, storeVars, apiVars, ingestVars, hookVars>>

AuditCall ==
    /\ s_pc = "call"
    /\ s_op = "audit"
    /\ LET out == audit(s_text.au, s_use_llm, s_self_use_llm, s_response)
       IN  s_result' = [raised |-> out.raised, path |-> out.path,
                        fields |-> EmptyFields, findings |-> out.findings]
    /\ s_pc' = "returned"
    /\ UNCHANGED <<s_op, s_text, s_use_llm, s_self_use_llm, s_response>>
    /\ UNCHANGED <<chunkVars, riskVars, storeVars, apiVars, ingestVars, hookVars>>

(* ===================== PDFProcessor.chunk_text (whole) ================ *)

\* The list chunk_text returns, by running its loop from `st` on.
RECURSIVE ChunkFrom(_, _, _, _, _)
ChunkFrom(t, size, ov, st, acc) ==
    IF st < Len(t)
    THEN ChunkFrom(t, size, ov, NextStart(st, size, ov),
                   Append(acc, ChunkDict(t, st, size, Len(acc))))
    ELSE acc

chunk_text(t, size, ov) == ChunkFrom(t, size, ov, 0, <<>>)

(* ============================ VectorStore ============================= *)

\* The collection maps a chunk id to its stored text and metadata.  The id
\* f"{document_id}_chunk_{idx}" is the pair <<document_id, idx>>.
ChunkId(document_id, idx) == <<document_id, idx>>

\* What add_document prepares for the chunk at position i (enumerate from 0)
\* of a document: metadata is document_id, chunk_index, start_char, end_char
\* and the caller's metadata (the filename).
ChunkRecord(document_id, chunk, idx, filename) ==
    [document |-> chunk.text,
     metadata |-> [document_id |-> document_id, chunk_index |-> idx,
                   start_char |-> chunk.start_char, end_char |-> chunk.end_char,
                   filename |-> filename]]

\* The ids -> records add_document hands to collection.add.
PreparedChunks(cfg, document_id, t, filename) ==
    LET cs == chunk_text(t, cfg.CHUNK_SIZE, cfg.CHUNK_OVERLAP)
    IN  [id \in {ChunkId(document_id, i - 1) : i \in 1..Len(cs)} |->
            ChunkRecord(document_id, cs[id[2] + 1], id[2], filename)]

\* collection.get(where={"document_id": document_id})["ids"]
IdsOf(c, document_id) ==
    {id \in DOMAIN c : c[id].metadata.document_id = document_id}

document_exists_never(c, document_id) == FALSE

\* VectorStore.document_exists
document_exists(c, document_id) == IdsOf(c, document_id) # {}

collection_delete_nothing(c, ids) == c

\* collection.delete(ids=ids)
collection_delete(c, ids) == [id \in (DOMAIN c) \ ids |-> c[id]]

\* collection.add(ids, documents, metadatas, embeddings): a record whose id is
\* already in the collection is not written again (the stored one stays).
collection_add(c, new) ==
    [id \in (DOMAIN c) \cup (DOMAIN new) |-> IF id \in DOMAIN c THEN c[id] ELSE new[id]]

\* The where clause of VectorStore.query: {"document_id": {"$in": ids}} if
\* document_ids else None.
Matching(c, document_ids) ==
    IF document_ids = <<>> THEN DOMAIN c
    ELSE {id \in DOMAIN c : c[id].metadata.document_id \in ToSet(document_ids)}

\* The orders in which the ids of S can be ranked.
Rankings(S) ==
    {r \in [1..Cardinality(S) -> S] : \A i, j \in 1..Cardinality(S) : r[i] = r[j] => i = j}

\* What collection.query can return for n_results: the ids of n_results of
\* the matching chunks (all of them if fewer), in the order of the
\* similarity ranking, which is the embedding's.
QueryResults(c, document_ids, n_results) ==
    LET m == Matching(c, document_ids)
        k == Min(n_results, Cardinality(m))
    IN  UNION {Rankings(S) : S \in {T \in SUBSET m : Cardinality(T) = k}}

(* ====================== workers on the vector store =================== *)

\* The processes that serve requests against the shared stores.
Workers == {"w1", "w2"}

DocIds == {"d1", "d2"}

\* The texts index_document is called with.
IndexTexts == {<<>>, <<"a", "a", "a">>, <<"b", "b">>}

\* The settings the retrieval pipeline reads (environment, app/core/config.py):
\* the chunking parameters, whether an OpenAI key is configured, the LLM
\* provider of the auditor and whether a Gemini key is configured.
Settings(size, ov, openai_key, provider, gemini_key) ==
    [CHUNK_SIZE |-> size, CHUNK_OVERLAP |-> ov, OPENAI_API_KEY |-> openai_key,
     LLM_PROVIDER |-> provider, GEMINI_API_KEY |-> gemini_key]

IndexSettings == {Settings(2, 1, k, "gemini", FALSE) : k \in BOOLEAN}

EmptyCollection == [id \in {} |-> None]

NoJob == [op |-> "none", document_id |-> "none", text |-> <<>>, filename |-> "none",
          document_ids |-> <<>>, fail_at |-> 0]

NoObs == [valid |-> FALSE, result |-> <<>>, in_gap |-> {}]

\* The chunks of each of the given documents as the collection holds them.
ChunksOf(c, document_id) == [id \in IdsOf(c, document_id) |-> c[id]]

\* The documents whose chunks differ between two collections.
Changed(c1, c2) == {d \in DocIds : ChunksOf(c1, d) # ChunksOf(c2, d)}

\* The formatted results of VectorStore.query for a ranking of ids.
Formatted(c, ranking) ==
    [i \in 1..Len(ranking) |->
        [text |-> c[ranking[i]].document, metadata |-> c[ranking[i]].metadata]]

add_document_failed_partial(c, new, fail_at) ==
    collection_add(c, [id \in {i \in DOMAIN new : i[2] + 1 < fail_at} |-> new[id]])

\* add_document when _get_embedding raises on the fail_at-th chunk: the loop is
\* left before collection.add is reached.
add_document_failed(c, new, fail_at) == c

StoreIdle ==
    /\ settings = Settings(2, 1, FALSE, "gemini", FALSE)
    /\ collection = EmptyCollection
    /\ pc = [p \in Workers |-> "idle"]
    /\ job = [p \in Workers |-> NoJob]
    /\ found = [p \in Workers |-> {}]
    /\ obs = [p \in Workers |-> NoObs]
    /\ touched = [p \in Workers |-> {}]
    /\ overlapped = [p \in Workers |-> FALSE]
    /\ gap = [d \in DocIds |-> <<>>]
    /\ nops = 0

StoreInit ==
    /\ settings \in IndexSettings
    /\ collection = EmptyCollection
    /\ pc = [p \in Workers |-> "idle"]
    /\ job = [p \in Workers |-> NoJob]
    /\ found = [p \in Workers |-> {}]
    /\ obs = [p \in Workers |-> NoObs]
    /\ touched = [p \in Workers |-> {}]
    /\ overlapped = [p \in Workers |-> FALSE]
    /\ gap = [d \in DocIds |-> <<>>]
    /\ nops = 0

IndexingPcs == {"idx_exists", "idx_delete_get", "idx_delete", "idx_add"}

\* RAGService.index_document(document_id, text, metadata) is called.
IndexStart(p) ==
    /\ pc[p] = "idle"
    /\ nops < MaxOps
    /\ \E d \in DocIds, t \in IndexTexts :
        /\ job' = [job EXCEPT ![p] = [NoJob EXCEPT !.op = "index", !.document_id = d,
                                                   !.text = t, !.filename = "f"]]
        /\ overlapped' =
             [q \in Workers |->
                IF q = p
                THEN \E r \in Workers \ {p} :
                        pc[r] \in IndexingPcs /\ job[r].document_id = d
                ELSE overlapped[q] \/ (pc[q] # "idle" /\ job[q].op = "index"
                                       /\ job[q].document_id = d)]
    /\ pc' = [pc EXCEPT ![p] = "idx_exists"]
    /\ found' = [found EXCEPT ![p] = {}]
    /\ touched' = [touched EXCEPT ![p] = {}]
    /\ nops' = nops + 1
    /\ UNCHANGED <<settings, collection, obs, gap>>
    /\ UNCHANGED <<chunkVars, riskVars, svcVars, apiVars, ingestVars, hookVars>>

\* index_document: `if self.vector_store.document_exists(document_id):`
IdxExists(p) ==
    /\ pc[p] = "idx_exists"
    /\ pc' = [pc EXCEPT ![p] =
                IF document_exists(collection, job[p].document_id)
                THEN "idx_delete_get" ELSE "idx_add"]
    /\ UNCHANGED <<settings, collection, job, found, obs, touched, overlapped, gap, nops>>
    /\ UNCHANGED <<chunkVars, riskVars, svcVars, apiVars, ingestVars, hookVars>>

\* delete_document: results = self.collection.get(where=...)
IdxDeleteGet(p) ==
    /\ pc[p] = "idx_delete_get"
    /\ found' = [found EXCEPT ![p] = IdsOf(collection, job[p].document_id)]
    /\ pc' = [pc EXCEPT ![p] =
                IF IdsOf(collection, job[p].document_id) # {}
                THEN "idx_delete" ELSE "idx_add"]
    /\ UNCHANGED <<settings, collection, job, obs, touched, overlapped, gap, nops>>
    /\ UNCHANGED <<chunkVars, riskVars, svcVars, apiVars, ingestVars, hookVars>>

\* delete_document: self.collection.delete(ids=results["ids"])
IdxDelete(p) ==
    /\ pc[p] = "idx_delete"
    /\ collection' = collection_delete(collection, found[p])
    /\ touched' = [touched EXCEPT ![p] = @ \cup Changed(collection, collection')]
    /\ gap' = [gap EXCEPT ![job[p].document_id] =
                 <<[old |-> [id \in found[p] \cap DOMAIN collection |-> collection[id]],
                    new |-> PreparedChunks(settings, job[p].document_id,
                                           job[p].text, job[p].filename)]>>]
    /\ pc' = [pc EXCEPT ![p] = "idx_add"]
    /\ UNCHANGED <<settings, job, found, obs, overlapped, nops>>
    /\ UNCHANGED <<chunkVars, riskVars, svcVars, apiVars, ingestVars, hookVars>>

\* add_document: every chunk is embedded, then one collection.add writes them.
IdxAdd(p) ==
    /\ pc[p] = "idx_add"
    /\ LET new == PreparedChunks(settings, job[p].document_id, job[p].text,
                                 job[p].filename)
       IN  /\ DOMAIN new # {}
           /\ collection' = collection_add(collection, new)
    /\ touched' = [touched EXCEPT ![p] = @ \cup Changed(collection, collection')]
    /\ gap' = [gap EXCEPT ![job[p].document_id] = <<>>]
    /\ pc' = [pc EXCEPT ![p] = "idx_done"]
    /\ UNCHANGED <<settings, job, found, obs, overlapped, nops>>
    /\ UNCHANGED <<chunkVars, riskVars, svcVars, apiVars, ingestVars, hookVars>>

\* add_document on a text without chunks: collection.add is handed empty
\* lists, which the store either rejects (ValueError) or takes as nothing to do.
IdxAddNothing(p) ==
    /\ pc[p] = "idx_add"
    /\ DOMAIN PreparedChunks(settings, job[p].document_id, job[p].text,
                             job[p].filename) = {}
    /\ \E rejected \in BOOLEAN :
          pc' = [pc EXCEPT ![p] = IF rejected THEN "idx_raised" ELSE "idx_done"]
    /\ gap' = [gap EXCEPT ![job[p].document_id] = <<>>]
    /\ UNCHANGED <<settings, collection, job, found, obs, touched, overlapped, nops>>
    /\ UNCHANGED <<chunkVars, riskVars, svcVars, apiVars, ingestVars, hookVars>>

\* add_document: _get_embedding raises on one of the chunks (only with an
\* OpenAI client; without one the collection embeds by itself).
IdxAddEmbeddingFails(p) ==
    /\ pc[p] = "idx_add"
    /\ settings.OPENAI_API_KEY
    /\ LET new == PreparedChunks(settings, job[p].document_id, job[p].text,
                                 job[p].filename)
       IN  \E k \in 1..Cardinality(DOMAIN new) :
              /\ collection' = add_document_failed(collection, new, k)
              /\ job' = [job EXCEPT ![p].fail_at = k]
    /\ touched' = [touched EXCEPT ![p] = @ \cup Changed(collection, collection')]
    /\ gap' = [gap EXCEPT ![job[p].document_id] = <<>>]
    /\ pc' = [pc EXCEPT ![p] = "idx_raised"]
    /\ UNCHANGED <<settings, found, obs, overlapped, nops>>
    /\ UNCHANGED <<chunkVars, riskVars, svcVars, apiVars, ingestVars, hookVars>>

\* index_document returns, or its exception reaches the caller.
IdxReturn(p) ==
    /\ pc[p] \in {"idx_done", "idx_raised"}
    /\ job[p].op = "index"
    /\ pc' = [pc EXCEPT ![p] = "idle"]
    /\ job' = [job EXCEPT ![p] = NoJob]
    /\ found' = [found EXCEPT ![p] = {}]
    /\ touched' = [touched EXCEPT ![p] = {}]
    /\ overlapped' = [overlapped EXCEPT ![p] = FALSE]
    /\ UNCHANGED <<settings, collection, obs, gap, nops>>
    /\ UNCHANGED <<chunkVars, riskVars, svcVars, apiVars, ingestVars, hookVars>>

\* VectorStore.query(query_text, document_ids, n_results) returns.
QueryCall(p) ==
    /\ pc[p] = "idle"
    /\ nops < MaxOps
    /\ \E ids \in {<<>>} \cup {<<d>> : d \in DocIds} :
        /\ job' = [job EXCEPT ![p] = [NoJob EXCEPT !.op = "query", !.document_ids = ids]]
        /\ \E r \in QueryResults(collection, ids, N_RESULTS) :
              obs' = [obs EXCEPT ![p] =
                        [valid |-> TRUE, result |-> Formatted(collection, r),
                         in_gap |-> {[document_id |-> d, old |-> gap[d][1].old,
                                      new |-> gap[d][1].new] :
                                        d \in {e \in DocIds :
                                                 /\ gap[e] # <<>>
                                                 /\ (ids = <<>> \/ e \in ToSet(ids))}}]]
    /\ pc' = [pc EXCEPT ![p] = "query_done"]
    /\ nops' = nops + 1
    /\ UNCHANGED <<settings, collection, found, touched, overlapped, gap>>
    /\ UNCHANGED <<chunkVars, riskVars, svcVars, apiVars, ingestVars, hookVars>>

\* VectorStore.query raises: the query text could not be embedded.
QueryEmbeddingFails(p) ==
    /\ pc[p] = "idle"
    /\ nops < MaxOps
    /\ settings.OPENAI_API_KEY
    /\ job' = [job EXCEPT ![p] = [NoJob EXCEPT !.op = "query"]]
    /\ pc' = [pc EXCEPT ![p] = "query_raised"]
    /\ nops' = nops + 1
    /\ UNCHANGED <<settings, collection, found, obs, touched, overlapped, gap>>
    /\ UNCHANGED <<chunkVars, riskVars, svcVars, apiVars, ingestVars, hookVars>>

QueryReturn(p) ==
    /\ pc[p] \in {"query_done", "query_raised"}
    /\ job[p].op = "query"
    /\ pc' = [pc EXCEPT ![p] = "idle"]
    /\ job' = [job EXCEPT ![p] = NoJob]
    /\ obs' = [obs EXCEPT ![p] = NoObs]
    /\ UNCHANGED <<settings, collection, found, touched, overlapped, gap, nops>>
    /\ UNCHANGED <<chunkVars, riskVars, svcVars, apiVars, ingestVars, hookVars>>

(* ================= the database and the request handlers ============== *)

\* Identifiers a request can carry: a string that is no UUID, the UUID of no
\* document, and the UUIDs of the stored documents.
UUIDs == {"d0"} \cup DocIds
RequestIds == {"not-a-uuid"} \cup UUIDs

\* uuid.UUID(document_id) does not raise ValueError
IsUUID(id) == id \in UUIDs

\* Document.text_content: None, or a text with its characters and what the
\* regular expressions of the extractor and of the auditor match on it.
DocText(is_null, chars, ex, au) ==
    [is_null |-> is_null, chars |-> chars, ex |-> ex, au |-> au]

NoText == DocText(TRUE, <<>>, EmptyExtractText, EmptyAuditText)

ContractTexts ==
    {DocText(FALSE, <<"a", "a", "a">>,
             ExtractText(<< <<"A", "B">> >>, <<>>, <<M("d"), <<>>, <<>>>>,
                         <<<<>>, <<>>, <<>>>>, M("g"), <<>>, <<>>),
             AuditText(<<14>>, <<>>, {1}, FALSE, TRUE, {}, {}, {}, FALSE)),
     DocText(FALSE, <<>>, EmptyExtractText, EmptyAuditText)}

\* A row of the documents table as ingest writes it: COMPLETED with the text
\* of the PDF, or FAILED without text.
DocumentRow(status, text_content, filename) ==
    [status |-> status, text_content |-> text_content, filename |-> filename]

DocumentTables ==
    {[d \in DocIds |-> IF d = "d1" THEN DocumentRow("completed", t, "f")
                                  ELSE DocumentRow("failed", NoText, "f")] :
        t \in ContractTexts}

ApiSettings ==
    {Settings(2, 1, TRUE, "gemini", TRUE), Settings(2, 1, FALSE, "gemini", FALSE)}

\* What the LLM answers to the requests of the handlers.
ApiExtractResponses ==
    {LLMResponse("provider_error", EmptyFields, FALSE, <<>>),
     LLMResponse("json_object",
                 LLMExtractData(List(<<"A", "C">>, "str"), None, Str(<<"e">>)), FALSE, <<>>)}

ApiAuditResponses ==
    {LLMResponse("provider_error", EmptyFields, FALSE, <<>>),
     LLMResponse("json_object", EmptyFields, FALSE,
                 <<LLMFinding(TRUE, "ip_transfer", "high", FALSE)>>),
     LLMResponse("json_object", EmptyFields, FALSE,
                 <<LLMFinding(TRUE, "ip_transfer", "severe", FALSE)>>)}

\* What the chat-completion call comes back with: it raises, it yields the
\* tokens of an answer, or (streaming) it raises after some tokens.
ChatOutcome(raises, tokens, breaks) ==
    [raises |-> raises, tokens |-> tokens, breaks |-> breaks]

ChatOutcomes ==
    {ChatOutcome(TRUE, <<>>, FALSE), ChatOutcome(FALSE, <<"t">>, FALSE),
     ChatOutcome(FALSE, <<"t">>, TRUE)}

\* What the services outside do to one ask request: the chunk on which the
\* embedding call of indexing raises (0: none), whether collection.add rejects
\* empty lists, whether the embedding of the question raises, and the chat
\* completion.  The first of them that raises ends the request, so one is
\* let to raise at a time.
Outside(emb_fail, add_rejects, query_raises, chat) ==
    [emb_fail |-> emb_fail, add_rejects |-> add_rejects,
     query_raises |-> query_raises, chat |-> chat]

Outsides ==
    {Outside(0, FALSE, FALSE, chat) : chat \in ChatOutcomes} \cup
    {Outside(2, FALSE, FALSE, ChatOutcome(FALSE, <<"t">>, FALSE)),
     Outside(0, TRUE, FALSE, ChatOutcome(FALSE, <<"t">>, FALSE)),
     Outside(0, FALSE, TRUE, ChatOutcome(FALSE, <<"t">>, FALSE))}

\* The use_llm parameter of a request with what the LLM answers if called.
LLMChoices(responses) ==
    {[use_llm |-> FALSE, r |-> LLMResponse("provider_error", EmptyFields, FALSE, <<>>)]}
    \cup {[use_llm |-> TRUE, r |-> r] : r \in responses}

REFUSAL == "I cannot answer this based on the available contract documents."

STREAM_REFUSAL == "I cannot answer this based on the available contract documents."

NoRequest == [endpoint |-> "none", document_ids |-> <<>>, use_llm |-> FALSE]

NoSession ==
    [fields |-> EmptyFields, findings |-> <<>>, risk_score |-> 0, existing |-> <<>>,
     path |-> "none", event |-> <<>>]

NoResponse == [code |-> 0, detail |-> "none", answer |-> "", citations |-> <<>>]

NoSocket == [outbox |-> <<>>, sent |-> <<>>, connected |-> FALSE]

NoTrace == [worked |-> {}, queried |-> FALSE, query_empty |-> FALSE, chat_called |-> FALSE]

\* raise HTTPException(status_code=code, detail=detail); an exception no
\* handler catches is the framework's 500 "internal".
HTTPException(code, detail) ==
    [code |-> code, detail |-> detail, answer |-> "", citations |-> <<>>]

\* websocket.send_json({"type": type, "content": content})
Message(type, content) == [type |-> type, content |-> content]

\* The checks extract_data and audit_contract make before they call their
\* service: <<the HTTPException raised>>, or <<>>.
document_rejection(docs, id) ==
    IF ~IsUUID(id) THEN <<HTTPException(400, "invalid_id")>>
    ELSE IF id \notin DOMAIN docs THEN <<HTTPException(404, "not_found")>>
    ELSE IF docs[id].status # "completed" THEN <<HTTPException(400, "not_ready")>>
    ELSE IF docs[id].text_content.is_null \/ docs[id].text_content.chars = <<>>
         THEN <<HTTPException(400, "no_text")>>
    ELSE <<>>

\* The checks ask_question makes on request.document_ids.
ask_rejection(docs, ids) ==
    IF \E i \in 1..Len(ids) : ~IsUUID(ids[i]) THEN <<HTTPException(400, "invalid_id")>>
    ELSE IF Cardinality(ToSet(ids) \cap DOMAIN docs) # Len(ids)
         THEN <<HTTPException(404, "not_found")>>
    ELSE IF \E i \in 1..Len(ids) : docs[ids[i]].status # "completed"
         THEN <<HTTPException(400, "not_ready")>>
    ELSE <<>>

\* The checks ask_question_stream makes on document_ids: the content of the
\* error message it sends, or <<>>.
stream_rejection(docs, ids) ==
    IF \E i \in 1..Len(ids) : ~IsUUID(ids[i]) THEN <<"invalid_id">>
    ELSE IF Cardinality(ToSet(ids) \cap DOMAIN docs) # Len(ids) THEN <<"not_found">>
    ELSE <<>>

\* AuditService.__init__: self.use_llm
audit_use_llm(cfg) ==
    \/ cfg.LLM_PROVIDER = "gemini" /\ cfg.GEMINI_API_KEY
    \/ cfg.LLM_PROVIDER = "openai" /\ cfg.OPENAI_API_KEY

\* A row of extracted_data.
ExtractedData(document_id, fields, use_llm) ==
    [document_id |-> document_id, fields |-> fields,
     extraction_method |-> IF use_llm THEN "llm" ELSE "rule-based"]

\* The row after the commit of a session that loaded it as `loaded` and set
\* its attributes to those of `new`: the UPDATE writes the columns whose
\* value differs from the loaded one.
Updated(current, loaded, new) ==
    [document_id |-> current.document_id,
     fields |-> [k \in ExtractKeys |->
                    IF new.fields[k] # loaded.fields[k]
                    THEN new.fields[k] ELSE current.fields[k]],
     extraction_method |-> IF new.extraction_method # loaded.extraction_method
                           THEN new.extraction_method ELSE current.extraction_method]

\* WebhookEvent(event_type=..., document_id=..., data=...); the timestamp is
\* left out.
WebhookEvent(type, document_id, data) ==
    [event_type |-> type, document_id |-> document_id, data |-> data]

\* The event audit_contract hands to send_webhook_event.
audit_completed(document_id, use_llm, findings_, risk_score_) ==
    WebhookEvent("audit.completed", document_id,
                 [audit_method |-> IF use_llm THEN "llm" ELSE "rule-based",
                  total_findings |-> Len(findings_), risk_score |-> risk_score_,
                  status |-> "completed"])

\* A row of audit_findings.
AuditFinding(document_id, finding) ==
    [document_id |-> document_id, finding_type |-> finding.finding_type,
     description |-> finding.description, severity |-> finding.severity,
     evidence_text |-> finding.evidence_text]

\* The rows of a table for a document, in the order they were inserted.
RowsOf(table, document_id) ==
    SelectSeq(table, LAMBDA row : row.document_id = document_id)

\* RAGService.index_document(document_id, text, metadata) as one call.
\* emb_fail is the chunk on which _get_embedding raises (0: on none),
\* add_rejects whether collection.add rejects empty lists.
index_document(c, cfg, document_id, text_content, filename, emb_fail, add_rejects) ==
    LET c1 == IF document_exists(c, document_id)
              THEN collection_delete(c, IdsOf(c, document_id)) ELSE c
        new == PreparedChunks(cfg, document_id, text_content.chars, filename)
    IN  IF text_content.is_null THEN [raised |-> TRUE, collection |-> c1]
        ELSE IF cfg.OPENAI_API_KEY /\ emb_fail \in 1..Cardinality(DOMAIN new)
             THEN [raised |-> TRUE, collection |-> add_document_failed(c1, new, emb_fail)]
        ELSE IF DOMAIN new = {} THEN [raised |-> add_rejects, collection |-> c1]
        ELSE [raised |-> FALSE, collection |-> collection_add(c1, new)]

\* "Ensure documents are indexed" of the ask handlers for the requested
\* documents, one after the other.
RECURSIVE ensure_indexed(_, _, _, _, _, _)
ensure_indexed(c, cfg, docs, ids, emb_fail, add_rejects) ==
    IF ids = <<>> THEN [raised |-> FALSE, collection |-> c, indexed |-> FALSE]
    ELSE IF document_exists(c, Head(ids))
         THEN ensure_indexed(c, cfg, docs, Tail(ids), emb_fail, add_rejects)
    ELSE LET out == index_document(c, cfg, Head(ids), docs[Head(ids)].text_content,
                                   docs[Head(ids)].filename, emb_fail, add_rejects)
         IN  IF out.raised
             THEN [raised |-> TRUE, collection |-> out.collection, indexed |-> TRUE]
             ELSE [ensure_indexed(out.collection, cfg, docs, Tail(ids), emb_fail,
                                  add_rejects) EXCEPT !.indexed = TRUE]

\* The citations answer_question builds from the chunks (chunk texts here are
\* shorter than the 200 characters after which they are cut).
Citations(relevant_chunks) ==
    [i \in 1..Len(relevant_chunks) |->
        [document_id |-> relevant_chunks[i].metadata.document_id, text |-> relevant_chunks[i].text,
         char_start |-> relevant_chunks[i].metadata.start_char,
         char_end |-> relevant_chunks[i].metadata.end_char]]

Answer(raised, queried, chat_called, answer, citations) ==
    [raised |-> raised, queried |-> queried, chat_called |-> chat_called,
     answer |-> answer, citations |-> citations]

answer_question_always_chat(cfg, relevant_chunks, query_raises, chat) ==
    IF ~cfg.OPENAI_API_KEY THEN Answer(TRUE, FALSE, FALSE, "", <<>>)
    ELSE IF query_raises THEN Answer(TRUE, FALSE, FALSE, "", <<>>)
    ELSE IF chat.raises THEN Answer(TRUE, TRUE, TRUE, "", <<>>)
    ELSE Answer(FALSE, TRUE, TRUE, chat.tokens[1], Citations(relevant_chunks))

\* RAGService.answer_question, given the chunks its query returns unless the
\* embedding of the question raises, and the outcome of the chat completion.
answer_question(cfg, relevant_chunks, query_raises, chat) ==
    IF ~cfg.OPENAI_API_KEY THEN Answer(TRUE, FALSE, FALSE, "", <<>>)
    ELSE IF query_raises THEN Answer(TRUE, FALSE, FALSE, "", <<>>)
    ELSE IF relevant_chunks = <<>> THEN Answer(FALSE, TRUE, FALSE, REFUSAL, <<>>)
    ELSE IF chat.raises THEN Answer(TRUE, TRUE, TRUE, "", <<>>)
    ELSE Answer(FALSE, TRUE, TRUE, chat.tokens[1], Citations(relevant_chunks))

\* ask_question_stream with "done" sent after the loop in a finally clause:
\* a stream that raises is answered with error and then with done.
stream_answer_done_in_finally(relevant_chunks, chat) ==
    IF relevant_chunks = <<>> THEN <<Message("token", STREAM_REFUSAL), Message("done", "")>>
    ELSE IF chat.raises THEN <<Message("error", "chat"), Message("done", "")>>
    ELSE [i \in 1..Len(chat.tokens) |-> Message("token", chat.tokens[i])]
         \o (IF chat.breaks THEN <<Message("error", "chat"), Message("done", "")>>
             ELSE <<Message("done", "")>>)

\* The messages ask_question_stream sends once its query has returned.
stream_answer(relevant_chunks, chat) ==
    IF relevant_chunks = <<>> THEN <<Message("token", STREAM_REFUSAL), Message("done", "")>>
    ELSE IF chat.raises THEN <<Message("error", "chat")>>
    ELSE [i \in 1..Len(chat.tokens) |-> Message("token", chat.tokens[i])]
         \o <<IF chat.breaks THEN Message("error", "chat") ELSE Message("done", "")>>

ApiIdle ==
    /\ documents = [d \in DocIds |-> DocumentRow("failed", NoText, "f")]
    /\ extracted_data = <<>>
    /\ audit_findings = <<>>
    /\ metrics = [audits_completed |-> 0, questions_asked |-> 0]
    /\ request_pc = [p \in Workers |-> "idle"]
    /\ request = [p \in Workers |-> NoRequest]
    /\ session = [p \in Workers |-> NoSession]
    /\ response = [p \in Workers |-> NoResponse]
    /\ ws = [p \in Workers |-> NoSocket]
    /\ trace = [p \in Workers |-> NoTrace]
    /\ last_extraction = [d \in DocIds |-> <<>>]
    /\ last_audit = [d \in DocIds |-> <<>>]
    /\ nreq = 0

ApiInit ==
    /\ documents \in DocumentTables
    /\ extracted_data = <<>>
    /\ audit_findings = <<>>
    /\ metrics = [audits_completed |-> 0, questions_asked |-> 0]
    /\ request_pc = [p \in Workers |-> "idle"]
    /\ request = [p \in Workers |-> NoRequest]
    /\ session = [p \in Workers |-> NoSession]
    /\ response = [p \in Workers |-> NoResponse]
    /\ ws = [p \in Workers |-> NoSocket]
    /\ trace = [p \in Workers |-> NoTrace]
    /\ last_extraction = [d \in DocIds |-> <<>>]
    /\ last_audit = [d \in DocIds |-> <<>>]
    /\ nreq = 0

\* The vector store as the handlers start with it.
ApiStoreInit ==
    /\ settings \in ApiSettings
    /\ collection = EmptyCollection
    /\ pc = [p \in Workers |-> "idle"]
    /\ job = [p \in Workers |-> NoJob]
    /\ found = [p \in Workers |-> {}]
    /\ obs = [p \in Workers |-> NoObs]
    /\ touched = [p \in Workers |-> {}]
    /\ overlapped = [p \in Workers |-> FALSE]
    /\ gap = [d \in DocIds |-> <<>>]
    /\ nops = 0

storeRest == <<settings, pc, job, found, obs, touched, overlapped, gap, nops>>

\* A request reaches a handler.
Begin(p, endpoint, ids, use_llm) ==
    /\ request_pc[p] = "idle"
    /\ nreq < MaxRequests
    /\ nreq' = nreq + 1
    /\ request' = [request EXCEPT ![p] =
                     [endpoint |-> endpoint, document_ids |-> ids, use_llm |-> use_llm]]

\* POST /extract up to the extraction: the checks of the document, then
\* ExtractionService.extract on its text.
ExtractLoad(p) ==
    /\ \E id \in RequestIds, llm \in LLMChoices(ApiExtractResponses) :
        /\ Begin(p, "extract", <<id>>, llm.use_llm)
        /\ LET rejection == document_rejection(documents, id)
               out == extract(documents[id].text_content.ex, llm.use_llm,
                              settings.OPENAI_API_KEY, llm.r)
           IN  IF rejection # <<>>
               THEN /\ response' = [response EXCEPT ![p] = rejection[1]]
                    /\ request_pc' = [request_pc EXCEPT ![p] = "responded"]
                    /\ UNCHANGED <<session, trace>>
               ELSE IF out.raised
               THEN /\ response' = [response EXCEPT ![p] =
                                      HTTPException(500, "extraction_failed")]
                    /\ request_pc' = [request_pc EXCEPT ![p] = "responded"]
                    /\ trace' = [trace EXCEPT ![p].worked = {"extract"}]
                    /\ UNCHANGED session
               ELSE /\ session' = [session EXCEPT ![p].fields = out.fields,
                                                   ![p].path = out.path]
                    /\ request_pc' = [request_pc EXCEPT ![p] = "extract_select"]
                    /\ trace' = [trace EXCEPT ![p].worked = {"extract"}]
                    /\ UNCHANGED response
    /\ UNCHANGED <<documents, extracted_data, audit_findings, metrics, ws,
                   last_extraction, last_audit>>
    /\ UNCHANGED <<chunkVars, riskVars, svcVars, storeVars, ingestVars, hookVars>>

\* extract_data: select(ExtractedData).where(document_id == doc_uuid) and
\* scalar_one_or_none(), which raises when there are several rows.
ExtractSelectExisting(p) ==
    /\ request_pc[p] = "extract_select"
    /\ LET id == request[p].document_ids[1]
           rows == {i \in 1..Len(extracted_data) : extracted_data[i].document_id = id}
       IN  IF Cardinality(rows) > 1
           THEN /\ response' = [response EXCEPT ![p] = HTTPException(500, "internal")]
                /\ request_pc' = [request_pc EXCEPT ![p] = "responded"]
                /\ UNCHANGED session
           ELSE /\ session' = [session EXCEPT ![p].existing =
                                 IF rows = {} THEN <<>>
                                 ELSE LET i == CHOOSE i \in rows : TRUE
                                      IN  <<[row |-> i, loaded |-> extracted_data[i]]>>]
                /\ request_pc' = [request_pc EXCEPT ![p] = "extract_commit"]
                /\ UNCHANGED response
    /\ UNCHANGED <<documents, extracted_data, audit_findings, metrics, request, ws,
                   trace, last_extraction, last_audit, nreq>>
    /\ UNCHANGED <<chunkVars, riskVars, svcVars, storeVars, ingestVars, hookVars>>

\* extract_data: the existing row is updated or a new row is added, and
\* db.commit() writes it; the response is built.
ExtractCommit(p) ==
    /\ request_pc[p] = "extract_commit"
    /\ LET id == request[p].document_ids[1]
           new == ExtractedData(id, session[p].fields, request[p].use_llm)
           existing == session[p].existing
       IN  /\ extracted_data' =
                IF existing = <<>> THEN Append(extracted_data, new)
                ELSE [extracted_data EXCEPT ![existing[1].row] =
                         Updated(@, existing[1].loaded, new)]
           /\ last_extraction' = [last_extraction EXCEPT ![id] = <<new>>]
    /\ response' = [response EXCEPT ![p] = HTTPException(200, "ok")]
    /\ request_pc' = [request_pc EXCEPT ![p] = "responded"]
    /\ UNCHANGED <<documents, audit_findings, metrics, request, session, ws, trace,
                   last_audit, nreq>>
    /\ UNCHANGED <<chunkVars, riskVars, svcVars, storeVars, ingestVars, hookVars>>

\* POST /audit up to the risk score: the checks of the document, then
\* AuditService.audit on its text and calculate_risk_score.
AuditLoad(p) ==
    /\ \E id \in RequestIds, llm \in LLMChoices(ApiAuditResponses) :
        /\ Begin(p, "audit", <<id>>, llm.use_llm)
        /\ LET rejection == document_rejection(documents, id)
               out == audit(documents[id].text_content.au, llm.use_llm,
                            audit_use_llm(settings), llm.r)
           IN  IF rejection # <<>>
               THEN /\ response' = [response EXCEPT ![p] = rejection[1]]
                    /\ request_pc' = [request_pc EXCEPT ![p] = "responded"]
                    /\ UNCHANGED <<session, trace>>
               ELSE IF out.raised
               THEN /\ response' = [response EXCEPT ![p] = HTTPException(500, "audit_failed")]
                    /\ request_pc' = [request_pc EXCEPT ![p] = "responded"]
                    /\ trace' = [trace EXCEPT ![p].worked = {"audit"}]
                    /\ UNCHANGED session
               ELSE /\ session' = [session EXCEPT
                                     ![p].findings = out.findings,
                                     ![p].path = out.path,
                                     ![p].risk_score = calculate_risk_score(out.findings)]
                    /\ request_pc' = [request_pc EXCEPT ![p] = "audit_save"]
                    /\ trace' = [trace EXCEPT ![p].worked = {"audit"}]
                    /\ UNCHANGED response
    /\ UNCHANGED <<documents, extracted_data, audit_findings, metrics, ws,
                   last_extraction, last_audit>>
    /\ UNCHANGED <<chunkVars, riskVars, svcVars, storeVars, ingestVars, hookVars>>

\* audit_contract from "Delete existing audit findings" on: a select of the
\* document's findings whose result is not used, an AuditFinding added per
\* finding (SeverityLevel(...) raises on a severity outside the enum),
\* db.commit(), the metric, the audit.completed webhook event (kept in the
\* session of the request), the response.
AuditSave(p) ==
    /\ request_pc[p] = "audit_save"
    /\ LET id == request[p].document_ids[1]
           findings_ == session[p].findings
       IN  IF \E i \in 1..Len(findings_) : findings_[i].severity \notin Severities
           THEN /\ response' = [response EXCEPT ![p] = HTTPException(500, "internal")]
                /\ UNCHANGED <<audit_findings, metrics, last_audit, session>>
           ELSE /\ session' = [session EXCEPT ![p].event =
                                 <<audit_completed(id, request[p].use_llm, findings_,
                                                   session[p].risk_score)>>]
                /\ audit_findings' =
                     audit_findings \o
                     [i \in 1..Len(findings_) |-> AuditFinding(id, findings_[i])]
                /\ metrics' = [metrics EXCEPT !.audits_completed = @ + 1]
                /\ last_audit' = [last_audit EXCEPT ![id] = <<findings_>>]
                /\ response' = [response EXCEPT ![p] = HTTPException(200, "ok")]
    /\ request_pc' = [request_pc EXCEPT ![p] = "responded"]
    /\ UNCHANGED <<documents, extracted_data, request, ws, trace,
                   last_extraction, nreq>>
    /\ UNCHANGED <<chunkVars, riskVars, svcVars, storeVars, ingestVars, hookVars>>

\* POST /ask: the checks of request.document_ids, "ensure documents are
\* indexed", RAGService.answer_question, the metric, the response.  An
\* exception of index_document is caught by no handler.
Ask(p) ==
    /\ \E ids \in {<<>>} \cup {<<id>> : id \in RequestIds},
          o \in {x \in Outsides : ~x.chat.breaks} :
        /\ Begin(p, "ask", ids, FALSE)
        /\ LET rejection == ask_rejection(documents, ids)
               ens == ensure_indexed(collection, settings, documents, ids,
                                     o.emb_fail, o.add_rejects)
           IN  IF rejection # <<>>
               THEN /\ response' = [response EXCEPT ![p] = rejection[1]]
                    /\ UNCHANGED <<collection, metrics, trace>>
               ELSE IF ens.raised
               THEN /\ response' = [response EXCEPT ![p] = HTTPException(500, "internal")]
                    /\ collection' = ens.collection
                    /\ trace' = [trace EXCEPT ![p].worked = {"index"}]
                    /\ UNCHANGED metrics
               ELSE \E r \in QueryResults(ens.collection, ids, N_RESULTS) :
                      LET out == answer_question(settings, Formatted(ens.collection, r),
                                                 o.query_raises, o.chat)
                      IN  /\ collection' = ens.collection
                          /\ trace' = [trace EXCEPT ![p] =
                                [worked |-> IF ens.indexed THEN {"index"} ELSE {},
                                 queried |-> out.queried,
                                 query_empty |-> out.queried /\ r = <<>>,
                                 chat_called |-> out.chat_called]]
                          /\ IF out.raised
                             THEN /\ response' = [response EXCEPT ![p] =
                                        HTTPException(500, "answer_error")]
                                  /\ UNCHANGED metrics
                             ELSE /\ response' = [response EXCEPT ![p] =
                                        [code |-> 200, detail |-> "ok",
                                         answer |-> out.answer,
                                         citations |-> out.citations]]
                                  /\ metrics' = [metrics EXCEPT !.questions_asked = @ + 1]
    /\ request_pc' = [request_pc EXCEPT ![p] = "responded"]
    /\ UNCHANGED <<documents, extracted_data, audit_findings, session, ws,
                   last_extraction, last_audit>>
    /\ UNCHANGED <<chunkVars, riskVars, svcVars, storeRest, ingestVars, hookVars>>

\* websocket /ask/stream from accept up to its first send: the message is
\* received, its question and document_ids are checked, the documents are
\* indexed if they are not, the query runs and, if it returns chunks, the
\* chat completion is called.  What is to be sent is in ws[p].outbox.
StreamServe(p) ==
    /\ \E question \in BOOLEAN, ids \in {<<>>} \cup {<<id>> : id \in RequestIds},
          o \in Outsides :
        /\ Begin(p, "stream", ids, FALSE)
        /\ LET rejection == stream_rejection(documents, ids)
               ens == ensure_indexed(collection, settings, documents, ids,
                                     o.emb_fail, o.add_rejects)
               Plan(detail, outbox) ==
                    /\ response' = [response EXCEPT ![p] = HTTPException(0, detail)]
                    /\ ws' = [ws EXCEPT ![p] =
                                [outbox |-> outbox, sent |-> <<>>, connected |-> TRUE]]
           IN  IF ~question
               THEN /\ Plan("question_required", <<Message("error", "question_required")>>)
                    /\ UNCHANGED <<collection, trace>>
               ELSE IF rejection # <<>>
               THEN /\ Plan(rejection[1], <<Message("error", rejection[1])>>)
                    /\ UNCHANGED <<collection, trace>>
               ELSE IF ens.raised
               THEN /\ Plan("unexpected", <<Message("error", "unexpected")>>)
                    /\ collection' = ens.collection
                    /\ trace' = [trace EXCEPT ![p].worked = {"index"}]
               ELSE IF settings.OPENAI_API_KEY /\ o.query_raises
               THEN /\ Plan("unexpected", <<Message("error", "unexpected")>>)
                    /\ collection' = ens.collection
                    /\ trace' = [trace EXCEPT ![p].worked =
                                    IF ens.indexed THEN {"index"} ELSE {}]
               ELSE \E r \in QueryResults(ens.collection, ids, N_RESULTS) :
                      /\ Plan("ok", stream_answer(Formatted(ens.collection, r), o.chat))
                      /\ collection' = ens.collection
                      /\ trace' = [trace EXCEPT ![p] =
                            [worked |-> IF ens.indexed THEN {"index"} ELSE {},
                             queried |-> TRUE, query_empty |-> r = <<>>,
                             chat_called |-> r # <<>>]]
    /\ request_pc' = [request_pc EXCEPT ![p] = "streaming"]
    /\ UNCHANGED <<documents, extracted_data, audit_findings, metrics, session,
                   last_extraction, last_audit>>
    /\ UNCHANGED <<chunkVars, riskVars, svcVars, storeRest, ingestVars, hookVars>>

\* await websocket.send_json(...) of the next message.
StreamSend(p) ==
    /\ request_pc[p] = "streaming"
    /\ ws[p].connected
    /\ ws[p].outbox # <<>>
    /\ ws' = [ws EXCEPT ![p].outbox = Tail(@), ![p].sent = Append(@, Head(ws[p].outbox))]
    /\ UNCHANGED <<documents, extracted_data, audit_findings, metrics, request_pc,
                   request, session, response, trace, last_extraction, last_audit,
                   nreq>>
    /\ UNCHANGED <<chunkVars, riskVars, svcVars, storeVars, ingestVars, hookVars>>

\* The client goes away; the handler's next send raises WebSocketDisconnect.
ClientDisconnect(p) ==
    /\ request_pc[p] = "streaming"
    /\ ws[p].connected
    /\ ws[p].outbox # <<>>
    /\ ws' = [ws EXCEPT ![p].connected = FALSE]
    /\ UNCHANGED <<documents, extracted_data, audit_findings, metrics, request_pc,
                   request, session, response, trace, last_extraction, last_audit,
                   nreq>>
    /\ UNCHANGED <<chunkVars, riskVars, svcVars, storeVars, ingestVars, hookVars>>

\* ask_question_stream ends: websocket.close() after the last message, or
\* the handler of WebSocketDisconnect.
StreamEnd(p) ==
    /\ request_pc[p] = "streaming"
    /\ ws[p].outbox = <<>> \/ ~ws[p].connected
    /\ request_pc' = [request_pc EXCEPT ![p] = "responded"]
    /\ UNCHANGED <<documents, extracted_data, audit_findings, metrics, request,
                   session, response, ws, trace, last_extraction, last_audit, nreq>>
    /\ UNCHANGED <<chunkVars, riskVars, svcVars, storeVars, ingestVars, hookVars>>

\* The response has gone out; the worker takes the next request.
Respond(p) ==
    /\ request_pc[p] = "responded"
    /\ request_pc' = [request_pc EXCEPT ![p] = "idle"]
    /\ request' = [request EXCEPT ![p] = NoRequest]
    /\ session' = [session EXCEPT ![p] = NoSession]
    /\ response' = [response EXCEPT ![p] = NoResponse]
    /\ ws' = [ws EXCEPT ![p] = NoSocket]
    /\ trace' = [trace EXCEPT ![p] = NoTrace]
    /\ UNCHANGED <<documents, extracted_data, audit_findings, metrics,
                   last_extraction, last_audit, nreq>>
    /\ UNCHANGED <<chunkVars, riskVars, svcVars, storeVars, ingestVars, hookVars>>

(* ================= regular expressions on concrete text =============== *)

\* A text is a sequence of one-character strings.  The services search it
\* with re.search / re.findall / re.finditer under re.IGNORECASE and without
\* re.DOTALL; what follows decides whether a pattern has a match.

\* str.lower() of the ASCII letters.
LowerCase ==
    [A |-> "a", B |-> "b", C |-> "c", D |-> "d", E |-> "e", F |-> "f", G |-> "g", H |-> "h", I
     |-> "i", J |-> "j", K |-> "k", L |-> "l", M |-> "m", N |-> "n", O |-> "o", P |-> "p", Q
     |-> "q", R |-> "r", S |-> "s", T |-> "t", U |-> "u", V |-> "v", W |-> "w", X |-> "x", Y
     |-> "y", Z |-> "z"]

Lower(c) == IF c \in DOMAIN LowerCase THEN LowerCase[c] ELSE c

Letters == {LowerCase[c] : c \in DOMAIN LowerCase}
DigitChars == {Digits[i] : i \in 1..Len(Digits)}
Whitespace == {" ", "\n", "\t"}

\* A pattern is a sequence of elements.  An "alt" element matches one of its
\* words (written in lower case; the empty word makes it optional); a "class"
\* element matches min..max characters of a character class, max < 0 meaning
\* no upper limit.  Lazy and greedy quantifiers have the same matches-or-not.
Alt(words) == [kind |-> "alt", words |-> words, cls |-> "none", min |-> 0, max |-> 0]
Lit(w) == Alt({w})
Opt(words) == Alt(words \cup {<<>>})
Class(cls, lo, hi) == [kind |-> "class", words |-> {}, cls |-> cls, min |-> lo, max |-> hi]

\* The lower-cased character c belongs to the class.
InClass(c, cls) ==
    CASE cls = "dot" -> c # "\n"
      [] cls = "ws" -> c \in Whitespace
      [] cls = "digit" -> c \in DigitChars
      [] cls = "digit_comma" -> c \in DigitChars \cup {","}
      [] cls = "letter" -> c \in Letters
      [] cls = "colon_ws" -> c \in Whitespace \cup {":"}
      [] cls = "slash_dash" -> c \in {"/", "-"}
      [] cls = "not_comma_nl" -> c \notin {",", "\n"}
      [] cls = "not_nl_dot" -> c \notin {"\n", "."}

\* The word w stands in s at position i, letters compared without case.
WordAt(s, i, w) ==
    /\ i + Len(w) - 1 <= Len(s)
    /\ \A k \in 1..Len(w) : Lower(s[i + k - 1]) = w[k]

\* The pattern p matches s starting at position i (1-based).
RECURSIVE MatchFrom(_, _, _)
MatchFrom(s, i, p) ==
    IF p = <<>> THEN TRUE
    ELSE LET e == Head(p)
             rest == Len(s) - i + 1
             most == IF e.max < 0 THEN rest ELSE Min(e.max, rest)
         IN  IF e.kind = "alt"
             THEN \E w \in e.words : WordAt(s, i, w) /\ MatchFrom(s, i + Len(w), Tail(p))
             ELSE \E n \in e.min..most :
                      /\ \A k \in i..(i + n - 1) : InClass(Lower(s[k]), e.cls)
                      /\ MatchFrom(s, i + n, Tail(p))

\* bool(re.search(pattern, text, re.IGNORECASE))
search(p, s) == \E i \in 1..(Len(s) + 1) : MatchFrom(s, i, p)

\* The indices of the patterns of a list that match.
Matching_patterns(ps, s) == {k \in 1..Len(ps) : search(ps[k], s)}

\* The positions just after a match of the pattern p that starts at i.
RECURSIVE EndsFrom(_, _, _)
EndsFrom(s, i, p) ==
    IF p = <<>> THEN {i}
    ELSE LET e == Head(p)
             rest == Len(s) - i + 1
             most == IF e.max < 0 THEN rest ELSE Min(e.max, rest)
         IN  IF e.kind = "alt"
             THEN UNION {EndsFrom(s, i + Len(w), Tail(p)) :
                            w \in {v \in e.words : WordAt(s, i, v)}}
             ELSE UNION {EndsFrom(s, i + n, Tail(p)) :
                            n \in {m \in e.min..most :
                                      \A k \in i..(i + m - 1) : InClass(Lower(s[k]), e.cls)}}

Max(S) == CHOOSE x \in S : \A y \in S : y <= x

\* Where the leftmost match of p in s starts (0: no match).
Leftmost(p, s) ==
    IF search(p, s) THEN CHOOSE i \in 1..(Len(s) + 1) :
                            /\ MatchFrom(s, i, p)
                            /\ \A j \in 1..(i - 1) : ~MatchFrom(s, j, p)
    ELSE 0

\* re.search(pattern, text, re.IGNORECASE) for a pattern `pre(grp)` whose
\* quantifiers are all greedy: <<>> without a match, else <<match.group(1)>>,
\* the group of the leftmost match, begun as late and ended as late as the
\* match allows.
search_group(g, s) ==
    LET i == Leftmost(g.pre \o g.grp, s)
        j == Max({x \in EndsFrom(s, i, g.pre) : MatchFrom(s, x, g.grp)})
    IN  IF i = 0 THEN <<>> ELSE <<SubSeq(s, j, Max(EndsFrom(s, j, g.grp)) - 1)>>

(* ------------------- the patterns of the AuditService ----------------- *)

auto_renewal_patterns ==
    <<
      <<Lit(<<"a", "u", "t", "o">>), Opt({<<"m", "a", "t", "i", "c">>}),
        Opt({<<"a", "l", "l", "y">>}), Class("ws", 1, -1), Lit(<<"r", "e", "n", "e", "w">>),
        Class("dot", 0, 100), Class("digit", 1, -1), Class("ws", 1, -1), Lit(<<"d", "a", "y">>)>>,
      <<Lit(<<"r", "e", "n", "e", "w">>), Opt({<<"s">>, <<"a", "l">>}), Class("ws", 1, -1),
        Lit(<<"a", "u", "t", "o", "m", "a", "t", "i", "c">>), Class("dot", 0, 100),
        Class("digit", 1, -1), Class("ws", 1, -1), Lit(<<"d", "a", "y">>)>>
    >>

cap_pattern ==
    <<Lit(<<"l", "i", "a", "b", "i", "l", "i", "t", "y">>), Class("dot", 0, 200),
      Alt({<<"l", "i", "m", "i", "t">>, <<"c", "a", "p">>}), Class("dot", 0, 100),
      Opt({<<"$">>, <<"u", "s", "d">>, <<"e", "u", "r">>}), Class("ws", 0, -1),
      Class("digit_comma", 1, -1)>>

unlimited_patterns ==
    <<
      <<Lit(<<"u", "n", "l", "i", "m", "i", "t", "e", "d">>), Class("ws", 1, -1),
        Lit(<<"l", "i", "a", "b", "i", "l", "i", "t", "y">>)>>,
      <<Lit(<<"n", "o">>), Class("ws", 1, -1), Lit(<<"l", "i", "m", "i", "t">>),
        Class("ws", 1, -1), Lit(<<"o", "n">>), Class("ws", 1, -1),
        Lit(<<"l", "i", "a", "b", "i", "l", "i", "t", "y">>)>>,
      <<Lit(<<"l", "i", "a", "b", "i", "l", "i", "t", "y">>), Class("dot", 0, 50),
        Lit(<<"w", "i", "t", "h", "o", "u", "t">>), Class("ws", 1, -1),
        Lit(<<"l", "i", "m", "i", "t">>)>>
    >>

liability_pattern == <<Lit(<<"l", "i", "a", "b", "i", "l", "i", "t", "y">>)>>

broad_patterns ==
    <<
      <<Lit(<<"i", "n", "d", "e", "m", "n", "i", "f">>), Class("dot", 0, 100),
        Alt({<<"a", "n", "y">>, <<"a", "l", "l">>}), Class("ws", 1, -1),
        Alt({<<"c", "l", "a", "i", "m", "s">>, <<"l", "o", "s", "s", "e", "s">>, <<"d", "a", "m", "a", "g", "e", "s">>, <<"l", "i", "a", "b", "i", "l", "i", "t", "i", "e", "s">>})>>,
      <<Lit(<<"i", "n", "d", "e", "m", "n", "i", "f">>), Class("dot", 0, 100),
        Alt({<<"d", "e", "f", "e", "n", "d">>, <<"h", "o", "l", "d", " ", "h", "a", "r", "m", "l", "e", "s", "s">>}),
        Class("dot", 0, 100), Lit(<<"a", "n", "y">>)>>
    >>

unilateral_patterns ==
    <<
      <<Lit(<<"[", "o", "t", "h", "e", "r", " ", "p", "a", "r", "t", "y", "]">>),
        Class("dot", 0, 100),
        Lit(<<"m", "a", "y", " ", "t", "e", "r", "m", "i", "n", "a", "t", "e">>),
        Class("dot", 0, 100), Lit(<<"a", "t", " ", "a", "n", "y", " ", "t", "i", "m", "e">>)>>,
      <<Lit(<<"t", "e", "r", "m", "i", "n", "a", "t", "e">>), Class("ws", 1, -1),
        Lit(<<"t", "h", "i", "s">>), Class("ws", 1, -1),
        Lit(<<"a", "g", "r", "e", "e", "m", "e", "n", "t">>), Class("ws", 1, -1),
        Lit(<<"a", "t">>), Class("ws", 1, -1), Lit(<<"a", "n", "y">>), Class("ws", 1, -1),
        Lit(<<"t", "i", "m", "e">>), Class("ws", 1, -1),
        Alt({<<"w", "i", "t", "h">>, <<"w", "i", "t", "h", "o", "u", "t">>}), Class("ws", 1, -1),
        Lit(<<"c", "a", "u", "s", "e">>)>>
    >>

price_patterns ==
    <<
      <<Lit(<<"p", "r", "i", "c", "e">>), Class("dot", 0, 100),
        Alt({<<"i", "n", "c", "r", "e", "a", "s", "e">>, <<"e", "s", "c", "a", "l", "a", "t">>}),
        Class("dot", 0, 100), Lit(<<"a", "u", "t", "o", "m", "a", "t", "i", "c">>)>>,
      <<Lit(<<"a", "u", "t", "o", "m", "a", "t", "i", "c">>), Class("dot", 0, 100),
        Lit(<<"p", "r", "i", "c", "e">>), Class("dot", 0, 100),
        Lit(<<"i", "n", "c", "r", "e", "a", "s", "e">>)>>
    >>

\* (?:not\s+(?:to\s+)?exceed|maximum|cap).{0,50}?\d+% as its alternatives.
price_cap_patterns ==
    {
      <<Lit(<<"n", "o", "t">>), Class("ws", 1, -1),
        Lit(<<"e", "x", "c", "e", "e", "d">>), Class("dot", 0, 50), Class("digit", 1, -1),
        Lit(<<"%">>)>>,
      <<Lit(<<"n", "o", "t">>), Class("ws", 1, -1), Lit(<<"t", "o">>), Class("ws", 1, -1),
        Lit(<<"e", "x", "c", "e", "e", "d">>), Class("dot", 0, 50), Class("digit", 1, -1),
        Lit(<<"%">>)>>,
      <<Alt({<<"m", "a", "x", "i", "m", "u", "m">>, <<"c", "a", "p">>}), Class("dot", 0, 50),
        Class("digit", 1, -1), Lit(<<"%">>)>>
    }

\* No auto-renewal pattern has a match in s: both finditer loops are empty.
NoRenewalMatch(s) == Matching_patterns(auto_renewal_patterns, s) = {}

\* What the regular expressions of the rule auditor match in a text without
\* an auto-renewal match.
AuditMatches(s) ==
    CASE NoRenewalMatch(s) ->
        AuditText(<<>>, <<>>,
                  Matching_patterns(unlimited_patterns, s),
                  search(cap_pattern, s),
                  search(liability_pattern, s),
                  Matching_patterns(broad_patterns, s),
                  Matching_patterns(unilateral_patterns, s),
                  Matching_patterns(price_patterns, s),
                  \E p \in price_cap_patterns : search(p, s))

(* ----------------- the patterns of the ExtractionService -------------- *)

\* Every pattern the rule extractor searches for, in the order of
\* extract_with_rules: parties (between ... and ..., Party:), the three date
\* and the three term patterns, governing law, payment terms, termination,
\* auto-renewal, confidentiality, indemnity and the liability cap.  Each is
\* cut after the first character of its last group, which decides whether it
\* matches.
extraction_patterns ==
    <<
      <<Lit(<<"b", "e", "t", "w", "e", "e", "n">>), Class("ws", 1, -1), Class("letter", 1, 1),
        Class("not_comma_nl", 1, -1), Class("ws", 1, -1), Alt({<<"a", "n", "d">>, <<"&">>}),
        Class("ws", 1, -1), Class("letter", 1, 1), Class("not_comma_nl", 1, -1),
        Class("ws", 0, -1), Lit(<<"(">>)>>,
      <<Lit(<<"b", "e", "t", "w", "e", "e", "n">>), Class("ws", 1, -1), Class("letter", 1, 1),
        Class("not_comma_nl", 1, -1), Class("ws", 1, -1), Alt({<<"a", "n", "d">>, <<"&">>}),
        Class("ws", 1, -1), Class("letter", 1, 1), Class("not_comma_nl", 1, -1),
        Alt({<<",">>, <<".">>})>>,
      <<Alt({<<"p", "a", "r", "t", "y">>, <<"p", "a", "r", "t", "i", "e", "s">>}), Lit(<<":">>),
        Class("ws", 0, -1), Class("dot", 1, -1)>>,
      <<Lit(<<"e", "f", "f", "e", "c", "t", "i", "v", "e">>), Class("ws", 1, -1),
        Lit(<<"d", "a", "t", "e">>), Class("colon_ws", 1, -1), Class("letter", 1, -1),
        Class("ws", 1, -1), Class("digit", 1, 2), Opt({<<",">>}), Class("ws", 1, -1),
        Class("digit", 4, 4)>>,
      <<Class("digit", 1, 2), Class("slash_dash", 1, 1), Class("digit", 1, 2),
        Class("slash_dash", 1, 1), Class("digit", 2, 4)>>,
      <<Class("letter", 1, -1), Class("ws", 1, -1), Class("digit", 1, 2), Opt({<<",">>}),
        Class("ws", 1, -1), Class("digit", 4, 4)>>,
      <<Lit(<<"t", "e", "r", "m">>), Class("colon_ws", 1, -1), Class("digit", 1, -1),
        Class("ws", 1, -1),
        Alt({<<"y", "e", "a", "r">>, <<"m", "o", "n", "t", "h">>, <<"d", "a", "y">>})>>,
      <<Lit(<<"p", "e", "r", "i", "o", "d", " ", "o", "f">>), Class("ws", 1, -1),
        Class("digit", 1, -1), Class("ws", 1, -1),
        Alt({<<"y", "e", "a", "r">>, <<"m", "o", "n", "t", "h">>, <<"d", "a", "y">>})>>,
      <<Lit(<<"d", "u", "r", "a", "t", "i", "o", "n">>), Class("colon_ws", 1, -1),
        Class("digit", 1, -1), Class("ws", 1, -1),
        Alt({<<"y", "e", "a", "r">>, <<"m", "o", "n", "t", "h">>, <<"d", "a", "y">>})>>,
      <<Lit(<<"g", "o", "v", "e", "r", "n", "i", "n", "g">>), Class("ws", 1, -1),
        Lit(<<"l", "a", "w">>), Class("colon_ws", 1, -1), Class("not_nl_dot", 1, -1)>>,
      <<Lit(<<"p", "a", "y", "m", "e", "n", "t">>), Class("ws", 1, -1),
        Lit(<<"t", "e", "r", "m">>), Opt({<<"s">>}), Class("colon_ws", 1, -1),
        Class("dot", 1, -1)>>,
      <<Lit(<<"t", "e", "r", "m", "i", "n", "a", "t", "i", "o", "n">>), Class("colon_ws", 1, -1),
        Class("dot", 1, -1)>>,
      <<Alt({<<"a", "u", "t", "o", "r", "e", "n", "e", "w">>, <<"a", "u", "t", "o", "-", "r", "e", "n", "e", "w">>, <<"a", "u", "t", "o", "m", "a", "t", "i", "c", " ", "r", "e", "n", "e", "w", "a", "l">>}),
        Class("colon_ws", 1, -1), Class("dot", 1, -1)>>,
      <<Lit(<<"c", "o", "n", "f", "i", "d", "e", "n", "t", "i", "a", "l", "i", "t">>),
        Alt({<<"y">>, <<"i", "e", "s">>}), Class("colon_ws", 1, -1), Class("dot", 1, -1)>>,
      <<Lit(<<"i", "n", "d", "e", "m", "n", "i">>),
        Alt({<<"t", "y">>, <<"f", "i", "c", "a", "t", "i", "o", "n">>}),
        Class("colon_ws", 1, -1), Class("dot", 1, -1)>>,
      <<Lit(<<"l", "i", "a", "b", "i", "l", "i", "t", "y">>), Class("dot", 0, -1),
        Alt({<<"l", "i", "m", "i", "t">>, <<"c", "a", "p">>}), Class("dot", 0, -1),
        Opt({<<"$">>, <<"u", "s", "d">>, <<"e", "u", "r">>, <<"g", "b", "p">>}),
        Class("ws", 0, -1), Class("digit_comma", 1, -1)>>
    >>

\* The candidate patterns of _extract_date_rule(text, "effective") and of
\* _extract_term_rule, in their order, each as the part before its group and
\* the group.
date_patterns ==
    <<
      [pre |->
         <<Lit(<<"e", "f", "f", "e", "c", "t", "i", "v", "e">>), Class("ws", 1, -1),
           Lit(<<"d", "a", "t", "e">>), Class("colon_ws", 1, -1)>>,
       grp |->
         <<Class("letter", 1, -1), Class("ws", 1, -1), Class("digit", 1, 2), Opt({<<",">>}),
           Class("ws", 1, -1), Class("digit", 4, 4)>>],
      [pre |->
         <<>>,
       grp |->
         <<Class("digit", 1, 2), Class("slash_dash", 1, 1), Class("digit", 1, 2),
           Class("slash_dash", 1, 1), Class("digit", 2, 4)>>],
      [pre |->
         <<>>,
       grp |->
         <<Class("letter", 1, -1), Class("ws", 1, -1), Class("digit", 1, 2), Opt({<<",">>}),
           Class("ws", 1, -1), Class("digit", 4, 4)>>]
    >>

term_patterns ==
    <<
      [pre |->
         <<Lit(<<"t", "e", "r", "m">>), Class("colon_ws", 1, -1)>>,
       grp |->
         <<Class("digit", 1, -1), Class("ws", 1, -1),
           Alt({<<"y", "e", "a", "r">>, <<"m", "o", "n", "t", "h">>, <<"d", "a", "y">>}),
           Opt({<<"s">>})>>],
      [pre |->
         <<Lit(<<"p", "e", "r", "i", "o", "d", " ", "o", "f">>), Class("ws", 1, -1)>>,
       grp |->
         <<Class("digit", 1, -1), Class("ws", 1, -1),
           Alt({<<"y", "e", "a", "r">>, <<"m", "o", "n", "t", "h">>, <<"d", "a", "y">>}),
           Opt({<<"s">>})>>],
      [pre |->
         <<Lit(<<"d", "u", "r", "a", "t", "i", "o", "n">>), Class("colon_ws", 1, -1)>>,
       grp |->
         <<Class("digit", 1, -1), Class("ws", 1, -1),
           Alt({<<"y", "e", "a", "r">>, <<"m", "o", "n", "t", "h">>, <<"d", "a", "y">>}),
           Opt({<<"s">>})>>]
    >>

\* The places of the date and term patterns in extraction_patterns.
DateTermPatterns == 4..9

\* No pattern of the rule extractor has a match in s.
NoExtractMatch(s) == Matching_patterns(extraction_patterns, s) = {}

\* What the regular expressions of the rule extractor match in a text in
\* which none but date and term patterns have a match.
ExtractMatches(s) ==
    CASE Matching_patterns(extraction_patterns, s) \subseteq DateTermPatterns ->
        ExtractText(<<>>, <<>>,
                    [k \in 1..3 |-> search_group(date_patterns[k], s)],
                    [k \in 1..3 |-> search_group(term_patterns[k], s)],
                    <<>>, <<>>, <<>>)

(* ============== the rule engine called on its own inputs ============== *)

\* Concrete contract texts: a prefix, a clause and a suffix.
TextPrefixes ==
    {<<>>,
     <<"T", "h", "e", " ">>,
     <<"T", "o", "t", "a", "l", "\n">>}

TextClauses ==
    {<<>>,
     <<"l", "i", "a", "b", "i", "l", "i", "t", "y", " ", "s", "h", "a", "l", "l", " ", "n", "o", "t", " ", "e", "x", "c", "e", "e", "d", " ", "$", "5", "0", ",", "0", "0", "0">>,
     <<"L", "i", "a", "b", "i", "l", "i", "t", "y">>,
     <<"u", "n", "l", "i", "m", "i", "t", "e", "d", " ", "l", "i", "a", "b", "i", "l", "i", "t", "y">>,
     <<"l", "i", "a", "b", "i", "l", "i", "t", "y", " ", "c", "a", "p", " ", "$", "5">>,
     <<"i", "n", "d", "e", "m", "n", "i", "f", "y", " ", "a", "l", "l", " ", "c", "l", "a", "i", "m", "s">>,
     <<"a", "s", "d", "f", "k", "j", " ", "a", "s", "l", "d", "k", "f", "j", " ", "l", "a", "s", "k", "d", "j", "f", " ", "l", "a", "k", "s", "d", "j", "f">>}

TextSuffixes ==
    {<<>>,
     <<".">>,
     <<" ", "l", "i", "m", "i", "t", " ", "5">>,
     <<"\n", "n", "o", " ", "l", "i", "m", "i", "t", " ", "o", "n", " ", "l", "i", "a", "b", "i", "l", "i", "t", "y">>}

RulesTexts == {p \o c \o x : p \in TextPrefixes, c \in TextClauses, x \in TextSuffixes}

\* An input of the rule engine: a concrete text, or a text given by what the
\* patterns match in it.
ConcreteText(s) ==
    [concrete |-> TRUE, chars |-> s, ex |-> EmptyExtractText, au |-> EmptyAuditText]
MatchedText(e, a) == [concrete |-> FALSE, chars |-> <<>>, ex |-> e, au |-> a]

\* The texts the detectors are run on.
NoticeDays == {0, 14, 15, 29, 30, 31, 90}

RenewalTexts ==
    {AuditText(r1, r2, {}, FALSE, FALSE, {}, {}, {}, FALSE) :
        r1 \in SeqsUpTo(NoticeDays, 2), r2 \in SeqsUpTo(NoticeDays, 1)}

LiabilityTexts ==
    {t \in {AuditText(<<>>, <<>>, u, c, w, {}, {}, {}, FALSE) :
                u \in SUBSET {1, 2, 3}, c \in BOOLEAN, w \in BOOLEAN} : ValidAuditText(t)}

\* Texts with up to five "between X and Y" matches and up to two party lists.
PartiesTexts ==
    {ExtractText(b, pl, <<<<>>, <<>>, <<>>>>, <<<<>>, <<>>, <<>>>>, <<>>, <<>>, <<>>) :
        b \in {[i \in 1..k |-> <<"A", "B">>] : k \in 0..5}
               \cup {<< <<"A", "B">>, <<"C", "D">> >>},
        pl \in {<<>>, << <<"C">> >>, << <<"A", "E">> >>,
                << <<"C">>, <<"D", "E", "F">> >>}}

\* Texts in which the liability pattern matches: the currency group (absent,
\* or a symbol) and the amount group (digits and commas).
LiabilityCapTexts ==
    {ExtractText(<<>>, <<>>, <<<<>>, <<>>, <<>>>>, <<<<>>, <<>>, <<>>>>, <<>>, <<>>,
                 <<[currency |-> c, amount |-> a]>>) :
        c \in {<<>>, M("$"), <<<<"E", "U", "R">>>>},
        a \in {<<"0">>, <<"7">>, <<"1", ",", "0", "0", "0">>, <<",">>, <<",", ",">>}}

\* Concrete texts with dates and terms.
DateTermTexts ==
    {<<"E", "f", "f", "e", "c", "t", "i", "v", "e", " ", "d", "a", "t", "e", ":", " ", "J", "a", "n", " ", "1", ",", " ", "2", "0", "2", "4">>,
     <<"1", "/", "2", "/", "2", "4", " ", "e", "f", "f", "e", "c", "t", "i", "v", "e", " ", "d", "a", "t", "e", ":", " ", "J", "a", "n", " ", "1", ",", " ", "2", "0", "2", "4">>,
     <<"D", "e", "c", " ", "3", " ", "2", "0", "2", "5", ".", " ", "E", "f", "f", "e", "c", "t", "i", "v", "e", " ", "D", "a", "t", "e", ":", " ", "J", "a", "n", " ", "1", ",", " ", "2", "0", "2", "4">>,
     <<"s", "i", "g", "n", "e", "d", " ", "0", "1", "-", "0", "2", "-", "2", "0", "2", "4">>,
     <<"J", "a", "n", " ", "1", ",", " ", "2", "0", "2", "4", " ", "a", "n", "d", " ", "3", "/", "4", "/", "2", "0", "2", "5">>,
     <<"d", "u", "r", "a", "t", "i", "o", "n", ":", " ", "3", " ", "d", "a", "y", "s", ",", " ", "t", "e", "r", "m", ":", " ", "5", " ", "y", "e", "a", "r", "s">>,
     <<"p", "e", "r", "i", "o", "d", " ", "o", "f", " ", "2", " ", "m", "o", "n", "t", "h", "s">>,
     <<"t", "e", "r", "m", " ", "1", "2", " ", "d", "a", "y", " ", "d", "u", "r", "a", "t", "i", "o", "n", " ", "1", " ", "y", "e", "a", "r">>,
     <<"n", "o", " ", "d", "a", "t", "e", "s", " ", "h", "e", "r", "e">>,
     <<"e", "f", "f", "e", "c", "t", "i", "v", "e", " ", "d", "a", "t", "e", " ", "3", "/", "4", "/", "2", "0", "2", "5", " ", "f", "o", "r", " ", "a", " ", "p", "e", "r", "i", "o", "d", " ", "o", "f", " ", "1", " ", "y", "e", "a", "r">>}

RuleOps ==
    {"_check_auto_renewal", "_check_unlimited_liability", "audit_with_rules",
     "extract_with_rules", "_extract_parties_rule"}

RulesInputs(op) ==
    CASE op = "_check_auto_renewal" ->
            {MatchedText(EmptyExtractText, a) : a \in RenewalTexts}
      [] op = "_check_unlimited_liability" ->
            {MatchedText(EmptyExtractText, a) : a \in LiabilityTexts}
            \cup {ConcreteText(s) : s \in {x \in RulesTexts : NoRenewalMatch(x)}}
      [] op = "audit_with_rules" ->
            {MatchedText(EmptyExtractText, a) : a \in SvcAuditTexts}
            \cup {ConcreteText(s) : s \in {x \in RulesTexts : NoRenewalMatch(x)}}
      [] op = "_extract_parties_rule" ->
            {MatchedText(e, EmptyAuditText) : e \in PartiesTexts}
      [] op = "extract_with_rules" ->
            {MatchedText(e, EmptyAuditText) : e \in SvcExtractTexts \cup LiabilityCapTexts}
            \cup {ConcreteText(s) : s \in {x \in RulesTexts : NoExtractMatch(x)}}
            \cup {ConcreteText(s) : s \in
                     {x \in DateTermTexts :
                         Matching_patterns(extraction_patterns, x) \subseteq DateTermPatterns}}

\* What the patterns of the auditor, and of the extractor, match in an input.
AuditInput(x) == IF x.concrete THEN AuditMatches(x.chars) ELSE x.au
ExtractInput(x) == IF x.concrete THEN ExtractMatches(x.chars) ELSE x.ex

\* A direct call of one function of the rule engine on a text.
RulesInit ==
    /\ s_op \in RuleOps
    /\ s_text \in RulesInputs(s_op)
    /\ s_use_llm = FALSE
    /\ s_self_use_llm = FALSE
    /\ s_response = LLMResponse("provider_error", EmptyFields, FALSE, <<>>)
    /\ s_result = [raised |-> FALSE, path |-> "none", fields |-> EmptyFields,
                   findings |-> <<>>]
    /\ s_pc = "call"

RulesReturn(fields, fs) ==
    /\ s_result' = [raised |-> FALSE, path |-> "rules", fields |-> fields,
                    findings |-> fs]
    /\ s_pc' = "returned"
    /\ UNCHANGED <<s_op, s_text, s_use_llm, s_self_use_llm, s_response>>
    /\ UNCHANGED <<chunkVars, riskVars, storeVars, apiVars, ingestVars, hookVars>>

CheckAutoRenewal ==
    /\ s_pc = "call"
    /\ s_op = "_check_auto_renewal"
    /\ RulesReturn(EmptyFields, _check_auto_renewal(AuditInput(s_text)))

CheckUnlimitedLiability ==
    /\ s_pc = "call"
    /\ s_op = "_check_unlimited_liability"
    /\ RulesReturn(EmptyFields, _check_unlimited_liability(AuditInput(s_text)))

AuditWithRules ==
    /\ s_pc = "call"
    /\ s_op = "audit_with_rules"
    /\ RulesReturn(EmptyFields, audit_with_rules(AuditInput(s_text)))

ExtractWithRules ==
    /\ s_pc = "call"
    /\ s_op = "extract_with_rules"
    /\ RulesReturn(extract_with_rules(ExtractInput(s_text)), <<>>)

ExtractPartiesRule ==
    /\ s_pc = "call"
    /\ s_op = "_extract_parties_rule"
    /\ RulesReturn([EmptyFields EXCEPT !["parties"] =
                        _extract_parties_rule(ExtractInput(s_text))], <<>>)

\* calculate_risk_score on the list audit_with_rules returned.
ScoreFindings ==
    /\ s_pc = "returned"
    /\ s_op = "audit_with_rules"
    /\ risk_score' = calculate_risk_score(s_result.findings)
    /\ s_pc' = "scored"
    /\ UNCHANGED <<findings, rpc>>
    /\ UNCHANGED <<s_op, s_text, s_use_llm, s_self_use_llm, s_response, s_result>>
    /\ UNCHANGED <<chunkVars, storeVars, apiVars, ingestVars, hookVars>>

(* ============================ POST /ingest ============================ *)

\* An uploaded file as ingest_documents treats it: whether its name ends with
\* ".pdf", whether its size exceeds settings.MAX_FILE_SIZE, whether writing
\* it to disk raises, and what PDFProcessor.extract_text does on it: <<>>
\* when it raises, else <<the text>> (a PDF without text gives "").
UploadFile(is_pdf, too_large, save_raises, extracted) ==
    [is_pdf |-> is_pdf, too_large |-> too_large, save_raises |-> save_raises,
     extracted |-> extracted]

UploadFiles ==
    {UploadFile(TRUE, FALSE, FALSE, << <<"a">> >>),
     UploadFile(TRUE, FALSE, FALSE, << <<>> >>),
     UploadFile(TRUE, FALSE, FALSE, <<>>),
     UploadFile(FALSE, FALSE, FALSE, << <<"a">> >>),
     UploadFile(TRUE, TRUE, FALSE, << <<"a">> >>),
     UploadFile(TRUE, FALSE, TRUE, << <<"a">> >>)}

\* "Extract text from PDF" with the status left at the column's default
\* when extract_text raises.
processed_default_status(file) ==
    IF file.extracted # <<>>
    THEN [text_content |-> file.extracted, status |-> "completed",
          error_message |-> <<>>, processed_at |-> <<"utcnow">>]
    ELSE [text_content |-> <<>>, status |-> "pending",
          error_message |-> <<"str(e)">>, processed_at |-> <<>>]

\* "Extract text from PDF": text_content, processing_status, error_message
\* and processed_at of the try and of the except branch (None is <<>>).
processed(file) ==
    IF file.extracted # <<>>
    THEN [text_content |-> file.extracted, status |-> "completed",
          error_message |-> <<>>, processed_at |-> <<"utcnow">>]
    ELSE [text_content |-> <<>>, status |-> "failed",
          error_message |-> <<"str(e)">>, processed_at |-> <<>>]

\* Document(id=..., filename=..., ..., processed_at=...): file stands for
\* filename, file_path and file_size, and the id is the number of the request
\* with the index of the file in place of uuid4().
Document(id, file) ==
    [id |-> id, file |-> file, text_content |-> processed(file).text_content,
     status |-> processed(file).status, error_message |-> processed(file).error_message,
     processed_at |-> processed(file).processed_at]

NoOutcome == [code |-> 0, dropped |-> FALSE]

IngestIdle ==
    /\ document_table = {}
    /\ ingest_pc = [p \in Workers |-> "idle"]
    /\ files = [p \in Workers |-> 0]
    /\ file_index = [p \in Workers |-> 0]
    /\ db_session = [p \in Workers |-> <<>>]
    /\ ingest_request = [p \in Workers |-> 0]
    /\ ingest_outcome = <<>>
    /\ ningest = 0

\* The service starts with an empty documents table.
IngestInit == IngestIdle

\* The request is answered with status code and the session is closed; the
\* outcome is noted, for a request rejected by a validation with whether
\* documents had been added to its session.
IngestRespond(p, code) ==
    /\ ingest_pc' = [ingest_pc EXCEPT ![p] = "idle"]
    /\ ingest_outcome' = [ingest_outcome EXCEPT ![ingest_request[p]] =
                            [code |-> code,
                             dropped |-> code \in {400, 413} /\ db_session[p] # <<>>]]
    /\ db_session' = [db_session EXCEPT ![p] = <<>>]
    /\ files' = [files EXCEPT ![p] = 0]
    /\ file_index' = [file_index EXCEPT ![p] = 0]
    /\ ingest_request' = [ingest_request EXCEPT ![p] = 0]

\* raise HTTPException(status_code=code): the handler is left, and the session
\* of the request is closed with what was added to it uncommitted.
IngestRaise(p, code) ==
    /\ IngestRespond(p, code)
    /\ UNCHANGED document_table

\* POST /ingest reaches ingest_documents with a number of files (each file
\* is drawn when the loop reaches it): `if not files` raises 400.  MaxFiles
\* files are uploaded in all, a request without files counting as one.
IngestStart(p) ==
    /\ ingest_pc[p] = "idle"
    /\ ningest < MaxFiles
    /\ \E len_files \in 0..(MaxFiles - ningest) :
          IF len_files = 0
          THEN /\ ningest' = ningest + 1
               /\ ingest_outcome' = Append(ingest_outcome, [code |-> 400, dropped |-> FALSE])
               /\ UNCHANGED <<ingest_pc, files, file_index, ingest_request>>
          ELSE /\ ningest' = ningest + len_files
               /\ ingest_pc' = [ingest_pc EXCEPT ![p] = "loop"]
               /\ files' = [files EXCEPT ![p] = len_files]
               /\ file_index' = [file_index EXCEPT ![p] = 1]
               /\ ingest_request' = [ingest_request EXCEPT ![p] = Len(ingest_outcome) + 1]
               /\ ingest_outcome' = Append(ingest_outcome, NoOutcome)
    /\ UNCHANGED <<document_table, db_session>>
    /\ UNCHANGED <<chunkVars, riskVars, svcVars, storeVars, apiVars, hookVars>>

\* One turn of `for file in files`: the two validations, the file saved to
\* disk, the text extracted, the Document added to the session.
IngestFile(p) ==
    /\ ingest_pc[p] = "loop"
    /\ \E file \in UploadFiles :
           IF ~file.is_pdf THEN IngestRaise(p, 400)
           ELSE IF file.too_large THEN IngestRaise(p, 413)
           ELSE IF file.save_raises THEN IngestRaise(p, 500)
           ELSE /\ db_session' = [db_session EXCEPT ![p] =
                     Append(@, Document(<<ingest_request[p], file_index[p]>>, file))]
                /\ IF file_index[p] < files[p]
                   THEN /\ file_index' = [file_index EXCEPT ![p] = @ + 1]
                        /\ UNCHANGED ingest_pc
                   ELSE /\ ingest_pc' = [ingest_pc EXCEPT ![p] = "commit"]
                        /\ UNCHANGED file_index
                /\ UNCHANGED <<document_table, files, ingest_request, ingest_outcome>>
    /\ UNCHANGED ningest
    /\ UNCHANGED <<chunkVars, riskVars, svcVars, storeVars, apiVars, hookVars>>

\* "Commit all documents to database": db.commit() writes the documents of
\* the session, and the metric, the document.ingested events (no webhook is
\* registered here, so that send_webhook_event returns at once) and the 201
\* response follow; or db.commit() raises and the handler rolls back and
\* raises 500.
IngestCommit(p) ==
    /\ ingest_pc[p] = "commit"
    /\ \/ /\ document_table' = document_table \cup ToSet(db_session[p])
          /\ IngestRespond(p, 201)
       \/ IngestRaise(p, 500)
    /\ UNCHANGED ningest
    /\ UNCHANGED <<chunkVars, riskVars, svcVars, storeVars, apiVars, hookVars>>

(* ============================== webhooks ============================== *)

WebhookUrls == {"u1", "u2"}

EventTypes == {"document.ingested", "audit.completed"}

\* WebhookConfig(url=..., events=...); the secret only adds a header.
WebhookConfig(url, events) == [url |-> url, events |-> events]

\* webhook_id = str(hash(config.url)), different for the urls here.
webhook_id(url) == url

\* webhook_registry as a dict in insertion order: its keys.
RegistryKeys(registry) == {registry[i].webhook_id : i \in 1..Len(registry)}

\* webhook_registry[webhook_id] = config
registry_set(registry, id, config) ==
    IF id \in RegistryKeys(registry)
    THEN [i \in 1..Len(registry) |->
            IF registry[i].webhook_id = id
            THEN [webhook_id |-> id, config |-> config] ELSE registry[i]]
    ELSE Append(registry, [webhook_id |-> id, config |-> config])

\* webhook_registry.pop(webhook_id)
registry_pop(registry, id) ==
    SelectSeq(registry, LAMBDA entry : entry.webhook_id # id)

\* [config for config in webhook_registry.values() if event_type in config.events]
matching(registry, type) ==
    LET subscribers == SelectSeq(registry, LAMBDA entry : type \in entry.config.events)
    IN  [i \in 1..Len(subscribers) |-> subscribers[i].config]

HookIdle ==
    /\ webhook_registry = <<>>
    /\ hook_pc = [p \in Workers |-> "idle"]
    /\ event_type = [p \in Workers |-> "none"]
    /\ matching_webhooks = [p \in Workers |-> <<>>]
    /\ hook_index = [p \in Workers |-> 0]
    /\ posted = [p \in Workers |-> <<>>]
    /\ subscribed = [p \in Workers |-> {}]
    /\ nhook = 0

\* The process starts with an empty registry.
HookInit == HookIdle

\* POST /webhook/register
RegisterWebhook ==
    /\ nhook < MaxHookOps
    /\ nhook' = nhook + 1
    /\ \E url \in WebhookUrls, events \in SUBSET EventTypes :
          webhook_registry' = registry_set(webhook_registry, webhook_id(url),
                                           WebhookConfig(url, events))
    /\ UNCHANGED <<hook_pc, event_type, matching_webhooks, hook_index, posted, subscribed>>
    /\ UNCHANGED <<chunkVars, riskVars, svcVars, storeVars, apiVars, ingestVars>>

\* DELETE /webhook/{webhook_id}: 404 for an id that is not registered.
UnregisterWebhook ==
    /\ nhook < MaxHookOps
    /\ nhook' = nhook + 1
    /\ \E id \in WebhookUrls :
          webhook_registry' = IF id \in RegistryKeys(webhook_registry)
                              THEN registry_pop(webhook_registry, id)
                              ELSE webhook_registry
    /\ UNCHANGED <<hook_pc, event_type, matching_webhooks, hook_index, posted, subscribed>>
    /\ UNCHANGED <<chunkVars, riskVars, svcVars, storeVars, apiVars, ingestVars>>

\* send_webhook_event(event_type, document_id, data) up to its loop: the
\* matching webhooks are collected; with none of them the call returns.
SendWebhookEvent(p) ==
    /\ hook_pc[p] = "idle"
    /\ nhook < MaxHookOps
    /\ nhook' = nhook + 1
    /\ \E type \in EventTypes :
        /\ event_type' = [event_type EXCEPT ![p] = type]
        /\ matching_webhooks' = [matching_webhooks EXCEPT ![p] =
                                   matching(webhook_registry, type)]
        /\ subscribed' = [subscribed EXCEPT ![p] =
                            {webhook_id(c.url) : c \in ToSet(matching(webhook_registry, type))}]
        /\ hook_pc' = [hook_pc EXCEPT ![p] =
                         IF matching(webhook_registry, type) = <<>>
                         THEN "returned" ELSE "post"]
    /\ hook_index' = [hook_index EXCEPT ![p] = 1]
    /\ posted' = [posted EXCEPT ![p] = <<>>]
    /\ UNCHANGED webhook_registry
    /\ UNCHANGED <<chunkVars, riskVars, svcVars, storeVars, apiVars, ingestVars>>

\* One turn of `for config in matching_webhooks`: await client.post(...)
\* answers 200, answers another status, or raises; each is logged and the
\* loop goes on.  registered tells whether the webhook is in the registry
\* when the request is sent.
WebhookPost(p) ==
    /\ hook_pc[p] = "post"
    /\ LET config == matching_webhooks[p][hook_index[p]]
       IN  \E outcome \in {"200", "500", "raises"} :
              posted' = [posted EXCEPT ![p] =
                           Append(@, [webhook_id |-> webhook_id(config.url),
                                      outcome |-> outcome,
                                      registered |-> webhook_id(config.url) \in
                                                        RegistryKeys(webhook_registry)])]
    /\ IF hook_index[p] < Len(matching_webhooks[p])
       THEN /\ hook_index' = [hook_index EXCEPT ![p] = @ + 1]
            /\ UNCHANGED hook_pc
       ELSE /\ hook_pc' = [hook_pc EXCEPT ![p] = "returned"]
            /\ UNCHANGED hook_index
    /\ UNCHANGED <<webhook_registry, event_type, matching_webhooks, subscribed, nhook>>
    /\ UNCHANGED <<chunkVars, riskVars, svcVars, storeVars, apiVars, ingestVars>>

\* send_webhook_event has returned to the operation that called it.
SendReturn(p) ==
    /\ hook_pc[p] = "returned"
    /\ hook_pc' = [hook_pc EXCEPT ![p] = "idle"]
    /\ event_type' = [event_type EXCEPT ![p] = "none"]
    /\ matching_webhooks' = [matching_webhooks EXCEPT ![p] = <<>>]
    /\ hook_index' = [hook_index EXCEPT ![p] = 0]
    /\ posted' = [posted EXCEPT ![p] = <<>>]
    /\ subscribed' = [subscribed EXCEPT ![p] = {}]
    /\ UNCHANGED <<webhook_registry, nhook>>
    /\ UNCHANGED <<chunkVars, riskVars, svcVars, storeVars, apiVars, ingestVars>>

(* =========================== specifications =========================== *)

InitChunk == ChunkInit /\ RiskIdle /\ SvcIdle /\ StoreIdle /\ ApiIdle /\ IngestIdle /\ HookIdle
NextChunk == ChunkLoop \/ ChunkReturn
SpecChunk == InitChunk /\ [][NextChunk]_vars

\* chunk_text is a plain loop in one call: once entered it keeps running.
SpecChunkFair == InitChunk /\ [][NextChunk]_vars /\ WF_vars(NextChunk)

InitChunkAny == ChunkAnyInit /\ RiskIdle /\ SvcIdle /\ StoreIdle /\ ApiIdle /\ IngestIdle /\ HookIdle
NextChunkAny == ChunkLoopCapped \/ ChunkReturn
SpecChunkAny == InitChunkAny /\ [][NextChunkAny]_vars /\ WF_vars(NextChunkAny)

InitRisk == RiskInit /\ ChunkIdle /\ SvcIdle /\ StoreIdle /\ ApiIdle /\ IngestIdle /\ HookIdle
NextRisk == CalculateRiskScore
SpecRisk == InitRisk /\ [][NextRisk]_vars

InitSvc == SvcInit /\ ChunkIdle /\ RiskIdle /\ StoreIdle /\ ApiIdle /\ IngestIdle /\ HookIdle
NextSvc == ExtractCall \/ AuditCall
SpecSvc == InitSvc /\ [][NextSvc]_vars

InitRules == RulesInit /\ ChunkIdle /\ RiskIdle /\ StoreIdle /\ ApiIdle /\ IngestIdle /\ HookIdle
NextRules ==
    \/ CheckAutoRenewal
    \/ CheckUnlimitedLiability
    \/ AuditWithRules
    \/ ExtractWithRules
    \/ ExtractPartiesRule
    \/ ScoreFindings
SpecRules == InitRules /\ [][NextRules]_vars

InitIndex == StoreInit /\ ChunkIdle /\ RiskIdle /\ SvcIdle /\ ApiIdle /\ IngestIdle /\ HookIdle
NextIndex ==
    \E p \in Workers :
        \/ IndexStart(p)
        \/ IdxExists(p)
        \/ IdxDeleteGet(p)
        \/ IdxDelete(p)
        \/ IdxAdd(p)
        \/ IdxAddNothing(p)
        \/ IdxAddEmbeddingFails(p)
        \/ IdxReturn(p)
        \/ QueryCall(p)
        \/ QueryEmbeddingFails(p)
        \/ QueryReturn(p)
SpecIndex == InitIndex /\ [][NextIndex]_vars

InitApi == ApiInit /\ ApiStoreInit /\ ChunkIdle /\ RiskIdle /\ SvcIdle /\ IngestIdle /\ HookIdle
NextApi ==
    \E p \in Workers :
        \/ ExtractLoad(p)
        \/ ExtractSelectExisting(p)
        \/ ExtractCommit(p)
        \/ AuditLoad(p)
        \/ AuditSave(p)
        \/ Ask(p)
        \/ StreamServe(p)
        \/ StreamSend(p)
        \/ ClientDisconnect(p)
        \/ StreamEnd(p)
        \/ Respond(p)
SpecApi == InitApi /\ [][NextApi]_vars

InitIngest == IngestInit /\ ChunkIdle /\ RiskIdle /\ SvcIdle /\ StoreIdle /\ ApiIdle /\ HookIdle
NextIngest ==
    \E p \in Workers :
        \/ IngestStart(p)
        \/ IngestFile(p)
        \/ IngestCommit(p)
SpecIngest == InitIngest /\ [][NextIngest]_vars

InitWebhook == HookInit /\ ChunkIdle /\ RiskIdle /\ SvcIdle /\ StoreIdle /\ ApiIdle /\ IngestIdle
NextWebhook ==
    \/ RegisterWebhook
    \/ UnregisterWebhook
    \/ \E p \in Workers :
        \/ SendWebhookEvent(p)
        \/ WebhookPost(p)
        \/ SendReturn(p)
SpecWebhook == InitWebhook /\ [][NextWebhook]_vars

(* =============================== claims =============================== *)

\* The first chunk whole, then each later chunk without its first ov characters.
RECURSIVE DropOverlaps(_, _)
DropOverlaps(cs, ov) ==
    IF cs = <<>> THEN <<>>
    ELSE Slice(Head(cs).text, ov, Len(Head(cs).text)) \o DropOverlaps(Tail(cs), ov)

Reconstruct(cs, ov) ==
    IF cs = <<>> THEN <<>> ELSE Head(cs).text \o DropOverlaps(Tail(cs), ov)

\* C1: for every text and valid (chunk_size, overlap), the first chunk taken
\* whole followed by every later chunk without its first `overlap` characters
\* is the text itself.
C1_ChunkReconstruction ==
    cpc = "done" => Reconstruct(chunks, overlap) = text

\* C1 witness: a finished run with at least three chunks, a positive overlap
\* and a final chunk shorter than the overlap.
C1_Witness ==
    /\ cpc = "done"
    /\ Len(chunks) >= 3
    /\ overlap > 0
    /\ Len(chunks[Len(chunks)].text) < overlap

\* The sum of weights as the specification states it.
ClaimSum(fs) ==
    LET n(sev) == Cardinality({i \in 1..Len(fs) : fs[i].severity = sev})
    IN  10 * n("low") + 25 * n("medium") + 50 * n("high") + 100 * n("critical")

\* C2: on findings of severity low, medium, high or critical the risk score is
\* min(100, sum of weights); it lies in [0, 100], is 0 for no finding, 100 for
\* a single critical finding and 50 for two medium findings.
C2_RiskScore ==
    (rpc = "done" /\ \A i \in 1..Len(findings) : findings[i].severity \in Severities)
    => /\ risk_score = Min(100, ClaimSum(findings))
       /\ 0 <= risk_score /\ risk_score <= 100
       /\ (findings = <<>> => risk_score = 0)
       /\ (findings = <<[severity |-> "critical"]>> => risk_score = 100)
       /\ (findings = <<[severity |-> "medium"], [severity |-> "medium"]>>
             => risk_score = 50)

\* C2 witness: a list whose weights add up to more than 100 was scored 100.
C2_Witness ==
    /\ rpc = "done"
    /\ \A i \in 1..Len(findings) : findings[i].severity \in Severities
    /\ ClaimSum(findings) > 100
    /\ risk_score = 100

\* The LLM call of the service failed: the provider raised, the answer was
\* not JSON, or normalising it raised.
LLMCallFailed ==
    /\ s_use_llm /\ s_self_use_llm
    /\ \/ s_response.kind \in {"provider_error", "malformed_json", "not_object"}
       \/ s_op = "extract" /\ SignatoriesRaise(s_response.data["signatories"])
       \/ s_op = "audit" /\ s_response.findings_null
       \/ s_op = "audit" /\ \E i \in 1..Len(s_response.findings) :
                                FindingRaises(s_response.findings[i])

\* C3: when the LLM path is selected and the LLM call fails, extract and audit
\* raise nothing and return what extract_with_rules(text), respectively
\* audit_with_rules(text), returns.
C3_LLMFallback ==
    (s_pc = "returned" /\ LLMCallFailed)
    => /\ ~s_result.raised
       /\ s_op = "extract" => s_result.fields = extract_with_rules(s_text.ex)
       /\ s_op = "audit" => s_result.findings = audit_with_rules(s_text.au)

\* C3 witness: extract fell back after a normalisation error on a text whose
\* rule extraction finds parties.
C3_Witness ==
    /\ s_pc = "returned"
    /\ s_op = "extract"
    /\ s_use_llm /\ s_self_use_llm
    /\ s_response.kind = "json_object"
    /\ SignatoriesRaise(s_response.data["signatories"])
    /\ s_result.fields["parties"].items # <<>>
    /\ s_result.fields["liability_cap_amount"] = Num(50)

\* The chunks of document d among the results a query returned.
ObservedOf(o, d) ==
    {o.result[i] : i \in {j \in 1..Len(o.result) : o.result[j].metadata.document_id = d}}

\* A stored version of a document as query results would show it.
VersionRecords(v) ==
    {[text |-> v[id].document, metadata |-> v[id].metadata] : id \in DOMAIN v}

\* C5: once index_document(document_id, text) has completed without error (and
\* no other index_document of the same document ran alongside it), the
\* collection holds for the document exactly the chunks of
\* chunk_text(text, CHUNK_SIZE, CHUNK_OVERLAP) under the ids
\* <<document_id, 0>> .. <<document_id, n-1>>, nothing of an earlier indexing,
\* and the call changed the chunks of no other document.
C5_IndexDocument ==
    \A p \in Workers :
        (pc[p] = "idx_done" /\ ~overlapped[p]) =>
            LET d  == job[p].document_id
                cs == chunk_text(job[p].text, settings.CHUNK_SIZE, settings.CHUNK_OVERLAP)
            IN  /\ IdsOf(collection, d) = {ChunkId(d, i) : i \in 0..(Len(cs) - 1)}
                /\ \A i \in 0..(Len(cs) - 1) :
                      /\ ChunkId(d, i) \in DOMAIN collection
                      /\ collection[ChunkId(d, i)].document = cs[i + 1].text
                      /\ collection[ChunkId(d, i)].metadata.document_id = d
                      /\ collection[ChunkId(d, i)].metadata.chunk_index = i
                      /\ collection[ChunkId(d, i)].metadata.start_char = cs[i + 1].start_char
                      /\ collection[ChunkId(d, i)].metadata.end_char = cs[i + 1].end_char
                /\ touched[p] \subseteq {d}

\* A re-indexing that replaced a longer version by a shorter, non-empty one has
\* completed while another document is indexed.
C5_Witness ==
    \E p \in Workers :
        /\ pc[p] = "idx_done"
        /\ ~overlapped[p]
        /\ Cardinality(found[p]) > Len(job[p].text)
        /\ job[p].text # <<>>
        /\ \E e \in DocIds \ {job[p].document_id} : document_exists(collection, e)

\* C6: re-indexing is not atomic.  A query that runs after index_document has
\* deleted the chunks of an indexed document and before it has added the new
\* ones is given no chunk of that document: what it observes is neither the
\* complete old version nor the complete new one.
C6_ReindexNotAtomic ==
    \A p \in Workers :
        obs[p].valid =>
            \A g \in obs[p].in_gap :
                /\ ObservedOf(obs[p], g.document_id) = {}
                /\ ObservedOf(obs[p], g.document_id) # VersionRecords(g.old)
                /\ DOMAIN g.new # {} =>
                      ObservedOf(obs[p], g.document_id) # VersionRecords(g.new)

\* A query for a document has returned while another worker was between the
\* delete and the add of re-indexing it with a non-empty text.
C6_Witness ==
    \E p \in Workers :
        /\ obs[p].valid
        /\ \E g \in obs[p].in_gap :
              /\ job[p].document_ids = <<g.document_id>>
              /\ DOMAIN g.new # {}
              /\ DOMAIN g.old # {}
              /\ obs[p].result = <<>>
              /\ \E q \in Workers \ {p} :
                    pc[q] = "idx_add" /\ job[q].document_id = g.document_id

\* The new version's chunks of the document a worker is indexing that are in
\* the collection.
NewPresent(p) ==
    LET new == PreparedChunks(settings, job[p].document_id, job[p].text, job[p].filename)
    IN  {id \in DOMAIN new : id \in DOMAIN collection /\ collection[id] = new[id]}

\* C7 as stated: when the embedding call fails on a chunk after the first
\* while an indexed document is re-indexed, the document is left with some but
\* not all of the new version's chunks.
C7_PartiallyIndexed ==
    \A p \in Workers :
        (pc[p] = "idx_raised" /\ job[p].fail_at >= 2 /\ found[p] # {} /\ ~overlapped[p]) =>
            /\ NewPresent(p) # {}
            /\ NewPresent(p) # DOMAIN PreparedChunks(settings, job[p].document_id,
                                                     job[p].text, job[p].filename)

\* C7 (amended): a failure of add_document while an indexed document is
\* re-indexed leaves the document with no chunk at all in the collection: the
\* old version's are deleted and none of the new version's is added.  The
\* chunks of other documents stay as they were.
C7_FailedReindexLeavesNothing ==
    \A p \in Workers :
        (pc[p] = "idx_raised" /\ found[p] # {} /\ ~overlapped[p]) =>
            /\ IdsOf(collection, job[p].document_id) = {}
            /\ NewPresent(p) = {}
            /\ touched[p] \subseteq {job[p].document_id}

\* The embedding call failed on the second or a later chunk of the new version
\* of an indexed document, after its old chunks were deleted.
C7_Witness ==
    \E p \in Workers :
        /\ pc[p] = "idx_raised"
        /\ job[p].fail_at >= 2
        /\ found[p] # {}
        /\ ~overlapped[p]
        /\ \E e \in DocIds \ {job[p].document_id} : document_exists(collection, e)

\* C4: after any sequence of successful audit requests for a document, the
\* findings persisted for it are exactly those of the most recent audit run;
\* the findings of earlier runs are removed.
C4_FindingsReplaced ==
    \A d \in DocIds :
        last_audit[d] # <<>> =>
            RowsOf(audit_findings, d) =
                [i \in 1..Len(last_audit[d][1]) |-> AuditFinding(d, last_audit[d][1][i])]

\* The refusal the specification fixes for an empty retrieval.
RefusalText == "I cannot answer this based on the available contract documents."

IsPrefix(a, b) == Len(a) <= Len(b) /\ SubSeq(b, 1, Len(a)) = a

\* C8: whenever the vector-store query of a request returns no chunks, the
\* chat completion is not called for the request; POST /ask answers with the
\* fixed refusal and no citations; the streaming path sends the refusal as one
\* token message followed by done (as far as the client stays to receive them).
C8_EmptyRetrievalRefusal ==
    \A p \in Workers :
        (request_pc[p] \in {"streaming", "responded"} /\ trace[p].query_empty) =>
            /\ ~trace[p].chat_called
            /\ request[p].endpoint = "ask" =>
                  /\ response[p].code = 200
                  /\ response[p].answer = RefusalText
                  /\ response[p].citations = <<>>
            /\ request[p].endpoint = "stream" =>
                  LET refusal == <<Message("token", RefusalText), Message("done", "")>>
                  IN  /\ IsPrefix(ws[p].sent, refusal)
                      /\ ws[p].sent \o ws[p].outbox = refusal
                      /\ (request_pc[p] = "responded" /\ ws[p].connected) =>
                            ws[p].sent = refusal

\* One worker has answered POST /ask and the other has finished a stream, both
\* on a query that returned nothing; the stream's client got both messages.
C8_Witness ==
    \E p, q \in Workers :
        /\ request_pc[p] = "responded" /\ request[p].endpoint = "ask"
        /\ trace[p].query_empty /\ response[p].answer = REFUSAL
        /\ request_pc[q] = "responded" /\ request[q].endpoint = "stream"
        /\ trace[q].query_empty /\ Len(ws[q].sent) = 2

\* C9: in extract, audit, ask and the streaming ask, a malformed identifier,
\* the identifier of no document and the identifier of a document that is not
\* COMPLETED are each rejected with their own error kind, before any
\* extraction, audit or indexing is done for the request.
C9_RejectionKinds ==
    \A p \in Workers :
        (/\ request_pc[p] = "responded"
         /\ request[p].document_ids # <<>>
         /\ response[p].detail # "question_required") =>
            LET id == request[p].document_ids[1]
                Rejected(kind) == response[p].detail = kind /\ trace[p].worked = {}
            IN  /\ ~IsUUID(id) => Rejected("invalid_id")
                /\ (IsUUID(id) /\ id \notin DOMAIN documents) => Rejected("not_found")
                /\ (id \in DOMAIN documents /\ documents[id].status # "completed") =>
                      Rejected("not_ready")

\* C10: after any sequence of successful extract requests for a document,
\* interleaved ones included, exactly one ExtractedData row exists for the
\* document and it holds the fields of the last committed extraction.
C10_SingleRecord ==
    (\A p \in Workers : request_pc[p] = "idle") =>
        \A d \in DocIds :
            last_extraction[d] # <<>> =>
                RowsOf(extracted_data, d) = <<last_extraction[d][1]>>


\* C15: every result returned by extract, on the rule path and on the LLM path
\* with any JSON object returned by the LLM, has parties and signatories
\* present, each of them a list.
C15_PartiesSignatoriesLists ==
    (s_pc = "returned" /\ s_op = "extract" /\ ~s_result.raised) =>
        /\ {"parties", "signatories"} \subseteq DOMAIN s_result.fields
        /\ s_result.fields["parties"].type = "list"
        /\ s_result.fields["signatories"].type = "list"


\* C17: for valid parameters every chunk returned by chunk_text has
\* end_char - start_char <= chunk_size, and only the final chunk is shorter
\* than chunk_size.
C17_OnlyFinalChunkShorter ==
    cpc = "done" =>
        \A i \in 1..Len(chunks) :
            /\ chunks[i].end_char - chunks[i].start_char <= chunk_size
            /\ i < Len(chunks) =>
                  chunks[i].end_char - chunks[i].start_char = chunk_size

\* The slice of a chunk was cut short by the end of the text.
Clipped(c) == c.start_char + chunk_size > Len(text)

\* C18: for valid parameters every pair of consecutive chunks i, i+1 shares
\* exactly `overlap` characters (end_char of chunk i minus start_char of chunk
\* i+1), except for pairs whose earlier chunk was clipped to the end of the
\* text.
C18_ConsecutiveOverlap ==
    cpc = "done" =>
        \A i \in 1..(Len(chunks) - 1) :
            ~Clipped(chunks[i]) =>
                /\ chunks[i].end_char - chunks[i + 1].start_char = overlap
                /\ Slice(chunks[i].text, chunk_size - overlap, chunk_size)
                     = Slice(chunks[i + 1].text, 0, overlap)

\* C18 witness: a finished run with a positive overlap that has a pair whose
\* earlier chunk is whole and a pair whose earlier chunk was clipped and
\* shares fewer than `overlap` characters with the next one.
C18_Witness ==
    /\ cpc = "done"
    /\ overlap > 0
    /\ \E i \in 1..(Len(chunks) - 1) : ~Clipped(chunks[i])
    /\ \E i \in 1..(Len(chunks) - 1) :
          /\ Clipped(chunks[i])
          /\ chunks[i].end_char - chunks[i + 1].start_char < overlap

\* ceil(a / b) for b > 0.
CeilDiv(a, b) == (a + b - 1) \div b

\* C19: for every text and valid (chunk_size, overlap), chunk_text terminates
\* and returns exactly ceil(len(text) / (chunk_size - overlap)) chunks, none
\* for the empty text, and the list is the function of the three arguments.
C19_TerminatesWithCount ==
    <>[](/\ cpc = "done"
         /\ Len(chunks) = CeilDiv(Len(text), chunk_size - overlap)
         /\ (text = <<>> => chunks = <<>>)
         /\ chunks = chunk_text(text, chunk_size, overlap))

\* C19 witness: a finished run whose text length is not a multiple of the
\* step, with at least three chunks.
C19_Witness ==
    /\ cpc = "done"
    /\ overlap > 0
    /\ Len(text) % (chunk_size - overlap) # 0
    /\ Len(chunks) >= 3
    /\ Len(chunks) = CeilDiv(Len(text), chunk_size - overlap)

\* C20: for a fixed text and overlap the number of chunks is non-increasing in
\* chunk_size: every larger chunk size gives at most as many chunks as the
\* run's chunk_size did.
C20_CountMonotone ==
    cpc = "done" =>
        \A s2 \in chunk_size..MaxChunkSize :
            Len(chunk_text(text, s2, overlap)) <= Len(chunks)

\* C20 witness: a finished run of at least three chunks with a positive
\* overlap for which the next chunk size gives strictly fewer chunks.
C20_Witness ==
    /\ cpc = "done"
    /\ overlap > 0
    /\ Len(chunks) >= 3
    /\ chunk_size < MaxChunkSize
    /\ Len(chunk_text(text, chunk_size + 1, overlap)) < Len(chunks)


\* C11: for every text the unlimited-liability detector returns at most one
\* finding: one of severity critical if explicit unlimited-liability phrasing
\* is present (whether or not a cap pattern is also present); otherwise one of
\* severity high if no liability-cap pattern matches and the word "liability"
\* occurs; otherwise none.  The critical and the high finding never both occur.
C11_UnlimitedLiability ==
    (s_pc = "returned" /\ s_op = "_check_unlimited_liability") =>
        LET t == AuditInput(s_text)
            fs == s_result.findings
            One(sev) == /\ Len(fs) = 1
                        /\ fs[1].finding_type = "unlimited_liability"
                        /\ fs[1].severity = sev
        IN  /\ Len(fs) <= 1
            /\ IF t.unlimited # {} THEN One("critical")
               ELSE IF ~t.has_cap /\ t.liability_word THEN One("high")
               ELSE fs = <<>>
            /\ ~(/\ \E i \in 1..Len(fs) : fs[i].severity = "critical"
                 /\ \E i \in 1..Len(fs) : fs[i].severity = "high")

\* C11 witness: a concrete text with both explicit unlimited-liability
\* phrasing and a liability cap, for which the one finding is critical.
C11_Witness ==
    /\ s_pc = "returned"
    /\ s_op = "_check_unlimited_liability"
    /\ s_text.concrete
    /\ AuditInput(s_text).unlimited # {}
    /\ AuditInput(s_text).has_cap
    /\ Len(s_result.findings) = 1
    /\ s_result.findings[1].severity = "critical"

\* The phrase of the scenario "liability cap present".
CapPhrase ==
    <<"l", "i", "a", "b", "i", "l", "i", "t", "y", " ", "s", "h", "a", "l", "l", " ", "n", "o", "t", " ", "e", "x", "c", "e", "e", "d", " ", "$", "5", "0", ",", "0", "0", "0">>

\* The text s contains the word w, letter for letter.
Contains(s, w) ==
    \E i \in 1..(Len(s) - Len(w) + 1) : SubSeq(s, i, i + Len(w) - 1) = w

\* C12: for a text that contains "liability shall not exceed $50,000" and no
\* unlimited-liability phrasing, audit_with_rules returns no finding of type
\* unlimited_liability.
C12_CapPresentNoFinding ==
    (/\ s_pc # "call"
     /\ s_op = "audit_with_rules"
     /\ s_text.concrete
     /\ Contains(s_text.chars, CapPhrase)
     /\ Matching_patterns(unlimited_patterns, s_text.chars) = {}) =>
        \A i \in 1..Len(s_result.findings) :
            s_result.findings[i].finding_type # "unlimited_liability"

\* C13: for each auto-renewal match with notice period N days the detector
\* emits a finding iff N < 30, of severity high iff N < 15 and medium iff
\* 15 <= N < 30: the findings are, in order, the matches with N < 30; a single
\* match of 30 gives none, of 29 a medium one, of 14 a high one.
C13_AutoRenewalBoundary ==
    (s_pc = "returned" /\ s_op = "_check_auto_renewal") =>
        LET t == AuditInput(s_text)
            days == t.renew1 \o t.renew2
            fs == s_result.findings
            Short(n) == n < 30
            Single(n) == t.renew1 = <<n>> /\ t.renew2 = <<>>
        IN  /\ [i \in 1..Len(fs) |-> fs[i].description] = SelectSeq(days, Short)
            /\ \A i \in 1..Len(fs) :
                  /\ fs[i].finding_type = "auto_renewal_short_notice"
                  /\ fs[i].severity = "high" <=> fs[i].description < 15
                  /\ fs[i].severity = "medium" <=>
                        (15 <= fs[i].description /\ fs[i].description < 30)
            /\ Single(30) => fs = <<>>
            /\ Single(29) => Len(fs) = 1 /\ fs[1].severity = "medium"
            /\ Single(14) => Len(fs) = 1 /\ fs[1].severity = "high"

\* C13 witness: matches of 30 and 15 days of the first pattern and of 14 days
\* of the second gave a medium and a high finding.
C13_Witness ==
    /\ s_pc = "returned"
    /\ s_op = "_check_auto_renewal"
    /\ s_text.au.renew1 = <<30, 15>>
    /\ s_text.au.renew2 = <<14>>
    /\ Len(s_result.findings) = 2
    /\ s_result.findings[1].severity = "medium"
    /\ s_result.findings[2].severity = "high"

\* The position of a finding type in the order the detectors run.
DetectorRank(type) ==
    CASE type = "auto_renewal_short_notice" -> 1
      [] type = "unlimited_liability" -> 2
      [] type = "broad_indemnity" -> 3
      [] type = "unilateral_termination" -> 4
      [] type = "automatic_price_increase" -> 5

SeverityWeight(sev) ==
    CASE sev = "low" -> 1 [] sev = "medium" -> 2 [] sev = "high" -> 3
      [] sev = "critical" -> 4

\* C14: the list audit_with_rules returns is in detector execution order (all
\* auto_renewal_short_notice findings, then unlimited_liability, then
\* broad_indemnity, then unilateral_termination, then
\* automatic_price_increase), and holds at most one finding of each type other
\* than auto_renewal_short_notice.
C14_DetectorOrder ==
    (s_pc # "call" /\ s_op = "audit_with_rules") =>
        LET fs == s_result.findings
        IN  /\ \A i, j \in 1..Len(fs) :
                  i < j => DetectorRank(fs[i].finding_type)
                              <= DetectorRank(fs[j].finding_type)
            /\ \A i, j \in 1..Len(fs) :
                  (/\ i # j
                   /\ fs[i].finding_type = fs[j].finding_type) =>
                      fs[i].finding_type = "auto_renewal_short_notice"

\* C14 witness: a result with two auto-renewal findings and a finding of each
\* other type that is sorted by severity in neither direction.
C14_Witness ==
    /\ s_pc = "returned"
    /\ s_op = "audit_with_rules"
    /\ Len(s_result.findings) = 6
    /\ \E i, j \in 1..6 :
          /\ i < j
          /\ SeverityWeight(s_result.findings[i].severity)
                < SeverityWeight(s_result.findings[j].severity)
    /\ \E i, j \in 1..6 :
          /\ i < j
          /\ SeverityWeight(s_result.findings[i].severity)
                > SeverityWeight(s_result.findings[j].severity)

\* C16: on the empty text nothing raises; extract_with_rules returns every
\* scalar field absent and parties and signatories empty lists,
\* audit_with_rules returns no finding, and the risk score of that list is 0.
C16_EmptyText ==
    (s_pc # "call" /\ s_text.concrete /\ s_text.chars = <<>>) =>
        /\ ~s_result.raised
        /\ s_op = "extract_with_rules" =>
              /\ \A k \in ExtractKeys \ {"parties", "signatories"} :
                    s_result.fields[k] = None
              /\ \A k \in {"parties", "signatories"} :
                    /\ s_result.fields[k].type = "list"
                    /\ s_result.fields[k].items = <<>>
        /\ s_op \in {"audit_with_rules", "_check_unlimited_liability"} =>
              s_result.findings = <<>>
        /\ s_pc = "scored" => risk_score = 0

\* C16 witness: audit_with_rules was run on the empty text and its result was
\* scored.
C16_Witness ==
    /\ s_pc = "scored"
    /\ s_op = "audit_with_rules"
    /\ s_text.concrete
    /\ s_text.chars = <<>>
    /\ s_result.path = "rules"


\* C24: for valid parameters the i-th chunk (i from 0) has chunk_index = i,
\* start_char = i * (chunk_size - overlap), end_char = min(start_char +
\* chunk_size, len(text)) and the text between start_char and end_char; there
\* is a chunk for exactly those i whose start_char < len(text).
C24_ChunkFields ==
    cpc = "done" =>
        LET step == chunk_size - overlap
        IN  /\ \A k \in 1..Len(chunks) :
                  /\ chunks[k].chunk_index = k - 1
                  /\ chunks[k].start_char = (k - 1) * step
                  /\ chunks[k].end_char
                        = Min(chunks[k].start_char + chunk_size, Len(text))
                  /\ chunks[k].text
                        = SubSeq(text, chunks[k].start_char + 1, chunks[k].end_char)
            /\ \A i \in 0..Len(text) : (i * step < Len(text)) <=> (i + 1 <= Len(chunks))

\* C24 witness: a finished run with a positive overlap, at least three chunks
\* and a clipped last chunk.
C24_Witness ==
    /\ cpc = "done"
    /\ overlap > 0
    /\ Len(chunks) >= 3
    /\ chunks[Len(chunks)].start_char + chunk_size > Len(text)
    /\ chunks[Len(chunks)].end_char = Len(text)


\* The parameters of the run make the step chunk_size - overlap non-positive
\* on a text that is not empty.
NoProgress == text # <<>> /\ overlap >= chunk_size

\* C26: chunk_text validates nothing: for a non-empty text and overlap >=
\* chunk_size the window start never passes the end of the text, the loop never
\* returns, and the chunk list keeps growing (here: up to the MaxChunks chunks
\* the model follows).
C26_NeverTerminates ==
    /\ [](NoProgress => (cpc = "loop" /\ start <= 0 /\ start < Len(text)))
    /\ (NoProgress ~> (Len(chunks) = MaxChunks))

\* C26 witness: a run with overlap > chunk_size on a non-empty text has
\* produced more chunks than the text has characters and is still looping.
C26_Witness ==
    /\ NoProgress
    /\ overlap > chunk_size
    /\ cpc = "loop"
    /\ start < 0
    /\ Len(chunks) > Len(text)


\* The party strings the two patterns match in a text.
MatchedParties(t) == ToSet(Flatten(t.between)) \cup ToSet(Flatten(t.party_lists))

\* C22: _extract_parties_rule returns party strings matched by the "between X
\* and Y" pattern and by the "Party/Parties:" pattern, without duplicates and
\* at most 10 of them; whenever the text yields at most 10 distinct party
\* strings, every one of them is in the result.
C22_PartiesUnion ==
    (s_pc = "returned" /\ s_op = "_extract_parties_rule") =>
        LET t == ExtractInput(s_text)
            ps == s_result.fields["parties"].items
        IN  /\ s_result.fields["parties"].type = "list"
            /\ ToSet(ps) \subseteq MatchedParties(t)
            /\ Cardinality(ToSet(ps)) = Len(ps)
            /\ Len(ps) <= 10
            /\ Cardinality(MatchedParties(t)) <= 10 => ToSet(ps) = MatchedParties(t)


\* C23: in the result of extract_with_rules liability_cap_amount is set iff
\* liability_cap_currency is set; when the liability pattern matches but the
\* amount cannot be parsed as a number both stay unset and nothing is raised;
\* when it matches without a currency symbol the currency is "USD".
C23_LiabilityCap ==
    (s_pc = "returned" /\ s_op = "extract_with_rules") =>
        LET t == ExtractInput(s_text)
            amount == s_result.fields["liability_cap_amount"]
            currency == s_result.fields["liability_cap_currency"]
            Parsed == t.liability # <<>> /\ \E i \in 1..Len(t.liability[1].amount) :
                                               t.liability[1].amount[i] # ","
        IN  /\ ~s_result.raised
            /\ amount # None <=> currency # None
            /\ amount # None <=> Parsed
            /\ amount # None => amount.type = "num"
            /\ (Parsed /\ t.liability[1].currency = <<>>) =>
                  currency = Str(<<"U", "S", "D">>)
            /\ (Parsed /\ t.liability[1].currency # <<>>) =>
                  currency = Str(t.liability[1].currency[1])

\* C23 witnesses: the pattern matched an amount of commas only and both fields
\* stayed unset.
C23_Witness ==
    /\ s_pc = "returned"
    /\ s_op = "extract_with_rules"
    /\ ExtractInput(s_text).liability # <<>>
    /\ ExtractInput(s_text).liability[1].amount = <<",", ",">>
    /\ s_result.fields["liability_cap_amount"] = None
    /\ s_result.fields["liability_cap_currency"] = None


\* The match of the first candidate pattern that has one, None without any.
LowestPatternMatch(ms) ==
    LET idx == {k \in 1..Len(ms) : ms[k] # <<>>}
    IN  IF idx = {} THEN None
        ELSE Str(ms[CHOOSE k \in idx : \A j \in idx : k <= j][1])

\* The whole candidate patterns of a field.
Whole(gs) == [k \in 1..Len(gs) |-> gs[k].pre \o gs[k].grp]

\* C25: for the effective date and the term the extractor returns the match of
\* the first pattern, in the order of the code, that matches anywhere in the
\* text, wherever later patterns match, and returns absent only when no
\* pattern matches; the date patterns are, in order, the labelled "effective
\* date", the numeric and the "Month DD, YYYY" pattern.
C25_FirstPatternWins ==
    (s_pc = "returned" /\ s_op = "extract_with_rules") =>
        LET t == ExtractInput(s_text)
        IN  /\ s_result.fields["effective_date"] = LowestPatternMatch(t.date)
            /\ s_result.fields["term"] = LowestPatternMatch(t.term)
            /\ s_text.concrete =>
                  /\ {k \in 1..3 : t.date[k] # <<>>}
                        = Matching_patterns(Whole(date_patterns), s_text.chars)
                  /\ {k \in 1..3 : t.term[k] # <<>>}
                        = Matching_patterns(Whole(term_patterns), s_text.chars)
                  /\ (s_result.fields["effective_date"] = None)
                        = (Matching_patterns(Whole(date_patterns), s_text.chars) = {})
                  /\ (s_result.fields["term"] = None)
                        = (Matching_patterns(Whole(term_patterns), s_text.chars) = {})

\* C25 witness: in a concrete text the numeric date pattern matches before the
\* place where the labelled pattern matches, and the labelled date is returned.
C25_Witness ==
    /\ s_pc = "returned"
    /\ s_op = "extract_with_rules"
    /\ s_text.concrete
    /\ Leftmost(Whole(date_patterns)[1], s_text.chars) > 0
    /\ Leftmost(Whole(date_patterns)[2], s_text.chars) > 0
    /\ Leftmost(Whole(date_patterns)[2], s_text.chars)
          < Leftmost(Whole(date_patterns)[1], s_text.chars)
    /\ s_result.fields["effective_date"]
          = Str(search_group(date_patterns[1], s_text.chars)[1])
    /\ s_result.fields["effective_date"]
          # Str(search_group(date_patterns[2], s_text.chars)[1])


\* The messages of one websocket session are token messages followed by at
\* most one done or error message.
TokensThenTerminal(sent) ==
    \A i \in 1..Len(sent) :
        /\ sent[i].type \in {"token", "done", "error"}
        /\ sent[i].type \in {"done", "error"} => i = Len(sent)

\* C21: in every step of /ask/stream, what a client has received is zero or
\* more token messages followed by at most one terminal message (done or
\* error), so no token follows a terminal; within a session the received
\* messages only grow at the end (nothing is retracted), and once the client
\* has closed the socket it receives nothing more.
C21_StreamMessages ==
    [][\A p \in Workers :
          /\ TokensThenTerminal(ws'[p].sent)
          /\ request_pc'[p] # "idle" =>
                /\ IsPrefix(ws[p].sent, ws'[p].sent)
                /\ (request_pc[p] \in {"streaming", "responded"} /\ ~ws[p].connected)
                      => ws'[p].sent = ws[p].sent]_vars

\* A session whose client closed the socket after a token, with messages
\* still to send: they are never delivered.
C21_Witness ==
    \E p \in Workers :
        /\ request_pc[p] = "responded"
        /\ request[p].endpoint = "stream"
        /\ ~ws[p].connected
        /\ ws[p].sent # <<>>
        /\ ws[p].sent[1].type = "token"
        /\ ws[p].outbox # <<>>


\* C27: under any interleaving of the index_document calls the ask handlers
\* make for one document, add_document's collection.add runs only when the
\* store holds no chunk of the document (the exists-check and delete before
\* it have no other add for the document after them), so that no chunk id
\* <<document_id, index>> is added twice.
C27_NoDoubleAdd ==
    [][\A p \in Workers :
          (/\ pc[p] = "idx_add"
           /\ pc'[p] = "idx_done"
           /\ DOMAIN PreparedChunks(settings, job[p].document_id, job[p].text,
                                    job[p].filename) # {}) =>
             ~document_exists(collection, job[p].document_id)]_vars


\* C28: the method label of a run names the path that produced its result:
\* the extraction row a request commits has extraction_method "llm" only if
\* its fields came from extract_with_llm, and the audit.completed event of a
\* request has audit_method "llm" only if its findings came from
\* audit_with_llm.
C28_MethodLabel ==
    [][\A p \in Workers :
          /\ (request_pc[p] = "extract_commit" /\ request_pc'[p] = "responded") =>
                (last_extraction'[request[p].document_ids[1]][1].extraction_method = "llm"
                    => session[p].path = "llm")
          /\ (request_pc[p] = "audit_save" /\ session'[p].event # <<>>) =>
                (session'[p].event[1].data.audit_method = "llm"
                    => session[p].path = "llm")]_vars


\* C29: every document record ingest has committed has status completed or
\* failed (never pending or processing); it is completed with text_content
\* and processed_at set and error_message null exactly if the text extraction
\* of its file succeeded, and failed with text_content null and error_message
\* set exactly if it raised; and no record belongs to a request one of whose
\* files was rejected by the validation (400 not a PDF, 413 too large).
C29_IngestRecords ==
    \A d \in document_table :
        /\ d.status \in {"completed", "failed"}
        /\ d.file.extracted # <<>> <=>
              /\ d.status = "completed"
              /\ d.text_content # <<>>
              /\ d.processed_at # <<>>
              /\ d.error_message = <<>>
        /\ d.file.extracted = <<>> <=>
              /\ d.status = "failed"
              /\ d.text_content = <<>>
              /\ d.error_message # <<>>
        /\ ingest_outcome[d.id[1]].code \notin {400, 413}

\* The table holds a completed and a failed record, and a request was
\* rejected by the validation after a document of it had been added to the
\* session.
C29_Witness ==
    /\ \E d \in document_table : d.status = "completed"
    /\ \E d \in document_table : d.status = "failed"
    /\ \E n \in 1..Len(ingest_outcome) :
          ingest_outcome[n].code \in {400, 413} /\ ingest_outcome[n].dropped

\* C30: a call of send_webhook_event that has returned has posted the event
\* exactly once to each webhook that was registered with the event type when
\* it was called, whatever the posts answered (a failed post neither stops
\* the loop nor raises); and no post goes to a webhook that is not in the
\* registry when the post is made.
C30_WebhookDelivery ==
    \A p \in Workers :
        /\ hook_pc[p] = "returned" =>
              /\ {posted[p][i].webhook_id : i \in 1..Len(posted[p])} = subscribed[p]
              /\ Len(posted[p]) = Cardinality(subscribed[p])
        /\ \A i \in 1..Len(posted[p]) : posted[p][i].registered

====
